---------------------------- MODULE Spec2Model ----------------------------
(***************************************************************************)
(* Model of the numeric core of the universal-hamiltonian-framework:       *)
(* PhaseSpace, HamiltonianSystem (kinetic / potential / force /            *)
(* hamiltonian / evolve / _verlet_step) and the define_system compiler.    *)
(*                                                                         *)
(* Numbers.  The code computes in float64.  The model carries every        *)
(* position, momentum and force on a fixed grid of Scale steps per unit    *)
(* (1e-8), every energy in units of 1/(EnergyDen * Scale^2), and every     *)
(* time in ticks of 1/TicksPerUnit (0.01, the default dt).  A division     *)
(* rounds to the nearest grid point.  A division by zero, which numpy      *)
(* answers with inf or nan and a warning, yields the absorbing value       *)
(* NonFinite.  Products that exceed TLC's 32-bit integers are carried as   *)
(* three limbs <<h, m, l>> of base Base.                                   *)
(***************************************************************************)
EXTENDS Integers, Sequences, FiniteSets, TLC

VARIABLES
    arrays,     \* the numpy arrays PhaseSpace objects refer to: id -> values
    points,     \* the PhaseSpace objects: sequence of [q |-> id, p |-> id]
    systems,    \* the HamiltonianSystem instance the caller holds (none at first)
    last,       \* outcome of the last call other than evolve
    ev,         \* the activation of evolve: its arguments, locals and outcome
    sh          \* the SymbolicHamiltonian instance the caller holds

vars == <<arrays, points, systems, last, ev, sh>>

---------------------------------------------------------------------------
(* Bounds of the model *)

MaxPoints  == 2     \* PhaseSpace objects alive at once
MaxT       == 3     \* largest t_max offered to evolve, in ticks
MaxDt      == 2     \* largest dt offered to evolve, in ticks
MaxMass    == 2     \* largest mass entry offered to HamiltonianSystem
MaxDof     == 2     \* largest n_dof of a SymbolicHamiltonian
MaxK       == 1     \* largest spring constant k, k_c of the Hamiltonian templates

---------------------------------------------------------------------------
(* Number representation *)

Base         == 10^4
Scale        == Base * Base        \* grid steps per unit of q, p, force
TicksPerUnit == 10^2               \* ticks per unit of time
EnergyDen    == 1 + 1              \* energies are carried in halves: 0.5*x*x is exact
NonFinite    == 0 - 2000000000     \* inf / nan

epsilon == 10                      \* 1e-7 on the grid of 1e-8

Fin(x) == x # NonFinite

Abs(x) == IF x < 0 THEN -x ELSE x

\* a / b rounded to the nearest integer (half up), b # 0
RoundDiv(a, b) ==
    LET n == IF b < 0 THEN -a ELSE a
        d == Abs(b)
    IN  (2 * n + d) \div (2 * d)

FAdd(a, b) == IF Fin(a) /\ Fin(b) THEN a + b ELSE NonFinite

FNeg(a) == IF Fin(a) THEN -a ELSE NonFinite

\* (a * b) / d on the grid
FMulDiv(a, b, d) ==
    IF ~Fin(a) \/ ~Fin(b) \/ d = 0 THEN NonFinite ELSE RoundDiv(a * b, d)

(* Three-limb integers: <<h, m, l>> stands for h*Base^2 + m*Base + l. *)
BigNaN == <<NonFinite, 0, 0>>

BigFin(b) == b[1] # NonFinite

BigZero == <<0, 0, 0>>

BigNorm(b) ==
    LET m2 == b[2] + (b[3] \div Base)
    IN  <<b[1] + (m2 \div Base), m2 % Base, b[3] % Base>>

BigAdd(a, b) ==
    IF BigFin(a) /\ BigFin(b)
    THEN BigNorm(<<a[1] + b[1], a[2] + b[2], a[3] + b[3]>>)
    ELSE BigNaN

BigSub(a, b) ==
    IF BigFin(a) /\ BigFin(b)
    THEN BigNorm(<<a[1] - b[1], a[2] - b[2], a[3] - b[3]>>)
    ELSE BigNaN

\* x * x
BigSq(x) ==
    IF ~Fin(x) THEN BigNaN
    ELSE LET a  == Abs(x)
             a1 == a \div Base
             a0 == a % Base
         IN  BigNorm(<<a1 * a1, 2 * a1 * a0, a0 * a0>>)

\* floor(b / d) for a normalised b and d > 0, as a three-limb integer
BigFloorDiv(b, d) ==
    LET qh == b[1] \div d
        r1 == b[1] % d
        qm == (r1 * Base + b[2]) \div d
        r2 == (r1 * Base + b[2]) % d
        ql == (r2 * Base + b[3]) \div d
    IN  BigNorm(<<qh, qm, ql>>)

\* b / d rounded to the nearest integer (half up), d # 0, as a three-limb integer
BigRoundDiv(b, d) ==
    IF ~BigFin(b) \/ d = 0 THEN BigNaN
    ELSE LET n  == IF d < 0 THEN BigSub(BigZero, b) ELSE b
             a  == Abs(d)
             n2 == BigNorm(<<2 * n[1], 2 * n[2], 2 * n[3] + a>>)
         IN  BigFloorDiv(n2, 2 * a)

\* the value of a three-limb integer that fits one integer
BigToInt(b) == IF BigFin(b) THEN b[1] * Scale + b[2] * Base + b[3] ELSE NonFinite

\* a < b
BigLess(a, b) ==
    LET d == BigSub(b, a)
    IN  BigFin(d) /\ (d[1] > 0 \/ (d[1] = 0 /\ (d[2] > 0 \/ d[3] > 0)))

---------------------------------------------------------------------------
(* Sequences as numpy vectors *)

Range(s) == {s[i] : i \in 1..Len(s)}

zeros(n) == [i \in 1..n |-> 0]

ones(n) == [i \in 1..n |-> 1]

---------------------------------------------------------------------------
(* HamiltonianSystem and the classes derived from it.                      *)
(*   cls = "HamiltonianSystem"  the base class, potential not overridden   *)
(*   cls = "Subclass"           a hand-written subclass that overrides     *)
(*                              potential with 0.5 * sum(q**2)             *)
(*   cls = "CompiledSystem"     the class define_system returns            *)

NoMass == [none |-> TRUE, val |-> <<>>]

Mass(m) == [none |-> FALSE, val |-> m]

\* HamiltonianSystem.__init__(n_dof, mass)
HamiltonianSystem_init(cls, n_dof, mass) ==
    [cls           |-> cls,
     n_dof         |-> n_dof,
     mass          |-> IF mass.none THEN ones(n_dof) ELSE mass.val,
     coords        |-> <<>>,
     has_kinetic   |-> FALSE,
     kinetic_m     |-> 1,
     has_potential |-> cls = "Subclass"]

\* getattr(cls, 'coordinates', []): a decorated class without the attribute
\* is a definition record without the field
getattr_coordinates(defn) ==
    IF "coordinates" \in DOMAIN defn THEN defn.coordinates ELSE <<>>

\* define_system(cls) followed by CompiledSystem(): the instance built from a
\* definition [coordinates, kinetic, potential, m].  The two flags say whether
\* the decorated class defines the method; m is the mass its kinetic method
\* divides by, (p.px1**2 + ...) / (2*m).
define_system(defn) ==
    [HamiltonianSystem_init("CompiledSystem", Len(getattr_coordinates(defn)), NoMass)
        EXCEPT !.coords        = getattr_coordinates(defn),
               !.has_kinetic   = defn.kinetic,
               !.kinetic_m     = defn.m,
               !.has_potential = defn.potential]

\* the namespace with the coordinates numbered from the far end
Namespace_reversed(coords, arr) ==
    [name \in Range(coords) |->
        arr[Len(coords) + 1
            - CHOOSE i \in 1..Len(coords) :
                /\ coords[i] = name
                /\ \A j \in 1..Len(coords) : coords[j] = name => j <= i]]

\* QNamespace / PNamespace: setattr(self, name, array[i]) for i, name in
\* enumerate(coords); a name listed twice keeps the value set last
Namespace(coords, arr) ==
    [name \in Range(coords) |->
        arr[CHOOSE i \in 1..Len(coords) :
                /\ coords[i] = name
                /\ \A j \in 1..Len(coords) : coords[j] = name => j <= i]]

\* QNamespace(q_array): attribute name -> q_array[i]
QNamespace(coords, q_array) == Namespace(coords, q_array)

\* PNamespace(p_array): attribute 'p' + name -> p_array[i]
PNamespace(coords, p_array) ==
    Namespace([i \in 1..Len(coords) |-> "p" \o coords[i]], p_array)

RECURSIVE SumSq(_, _)
\* EnergyDen * 0.5 * (v[1]**2 + ... + v[n]**2)
SumSq(v, n) == IF n = 0 THEN BigZero ELSE BigAdd(SumSq(v, n - 1), BigSq(v[n]))

\* the potential the definitions of the tests give: 0.5 * (q.x1**2 + q.x2**2 ...)
UserPotential(coords, ns) ==
    SumSq([i \in 1..Len(coords) |-> ns[coords[i]]], Len(coords))

\* the kinetic energy the definitions give: (p.px1**2 + ...) / (2*m), with
\* m = 1 in the definitions of the tests
UserKinetic(coords, ns, m) ==
    BigRoundDiv(SumSq([i \in 1..Len(coords) |-> ns["p" \o coords[i]]], Len(coords)), m)

Ok(v) == [exc |-> "none", val |-> v]

Raise(e) == [exc |-> e, val |-> BigNaN]

\* potential(q): HamiltonianSystem.potential, the override of a subclass, or
\* CompiledSystem.potential
potential(sys, q) ==
    CASE sys.cls = "HamiltonianSystem" -> Raise("NotImplementedError")
      [] sys.cls = "Subclass"          -> Ok(SumSq(q, Len(q)))
      [] sys.cls = "CompiledSystem"    ->
            IF sys.has_potential
            THEN IF Len(q) < Len(sys.coords)
                 THEN Raise("IndexError")
                 ELSE Ok(UserPotential(sys.coords, QNamespace(sys.coords, q)))
            ELSE Ok(BigZero)

RECURSIVE KineticSum(_, _, _)
\* EnergyDen * sum(p**2 / (2 * mass))
KineticSum(p, mass, n) ==
    IF n = 0 THEN BigZero
    ELSE BigAdd(KineticSum(p, mass, n - 1), BigRoundDiv(BigSq(p[n]), mass[n]))

\* kinetic(p): HamiltonianSystem.kinetic or CompiledSystem.kinetic
kinetic(sys, p) ==
    IF sys.cls = "CompiledSystem" /\ sys.has_kinetic
    THEN IF Len(p) < Len(sys.coords)
         THEN Raise("IndexError")
         ELSE Ok(UserKinetic(sys.coords, PNamespace(sys.coords, p), sys.kinetic_m))
    ELSE Ok(KineticSum(p, sys.mass, Len(p)))

\* hamiltonian(q, p) = kinetic(p) + potential(q), kinetic evaluated first
hamiltonian_sum(t, v) ==
    IF t.exc # "none" THEN t
    ELSE IF v.exc # "none" THEN v
    ELSE Ok(BigAdd(t.val, v.val))

hamiltonian(sys, q, p) == hamiltonian_sum(kinetic(sys, p), potential(sys, q))

RECURSIVE force_loop(_, _, _, _, _)
\* The loop of force, coordinate i: q is perturbed in place and grad filled
\* coordinate by coordinate; an exception of potential leaves the loop where
\* it stands.  The four operators are the statements of one pass in order.

\* q[i] += epsilon (back to the value before); grad[i] = -(V_plus - V_minus) / (2*epsilon)
force_grad(sys, i, grad, ncalls, q_plus, V_plus, q_minus, V_minus) ==
    IF V_plus.exc # "none"
    THEN [exc |-> V_plus.exc, grad |-> grad, q |-> q_plus, pcalls |-> ncalls + 1]
    ELSE IF V_minus.exc # "none"
    THEN [exc |-> V_minus.exc, grad |-> grad, q |-> q_minus, pcalls |-> ncalls + 2]
    ELSE force_loop(sys, [q_minus EXCEPT ![i] = FAdd(@, epsilon)], i + 1,
                    [grad EXCEPT ![i] =
                        FNeg(BigToInt(BigRoundDiv(BigSub(V_plus.val, V_minus.val),
                                                  EnergyDen * 2 * epsilon)))],
                    ncalls + 2)

\* V_minus = self.potential(q)
force_minus(sys, i, grad, ncalls, q_plus, V_plus, q_minus) ==
    force_grad(sys, i, grad, ncalls, q_plus, V_plus, q_minus, potential(sys, q_minus))

\* V_plus = self.potential(q); q[i] -= epsilon: the second evaluation taken at
\* q itself
force_plus_one_sided(sys, i, grad, ncalls, q_plus) ==
    force_minus(sys, i, grad, ncalls, q_plus, potential(sys, q_plus),
                [q_plus EXCEPT ![i] = FAdd(@, -epsilon)])

\* V_plus = self.potential(q); q[i] -= 2*epsilon
force_plus(sys, i, grad, ncalls, q_plus) ==
    force_minus(sys, i, grad, ncalls, q_plus, potential(sys, q_plus),
                [q_plus EXCEPT ![i] = FAdd(@, -(2 * epsilon))])

\* for i in range(len(q)): q[i] += epsilon
force_loop(sys, q, i, grad, ncalls) ==
    IF i > Len(q)
    THEN [exc |-> "none", grad |-> grad, q |-> q, pcalls |-> ncalls]
    ELSE force_plus(sys, i, grad, ncalls, [q EXCEPT ![i] = FAdd(@, epsilon)])

\* force(q): the numerical gradient of HamiltonianSystem and CompiledSystem.
\* The result carries the gradient, the argument array as the call leaves
\* it, and the number of potential evaluations made.
force(sys, q) == force_loop(sys, q, 1, zeros(Len(q)), 0)

---------------------------------------------------------------------------
(* _verlet_step *)

\* p += dt * F, the factor 0.5 forgotten
kick_full(p, dt, F) ==
    [i \in 1..Len(p) |-> FAdd(p[i], FMulDiv(dt, F[i], TicksPerUnit))]

\* p += 0.5 * dt * F
kick(p, dt, F) ==
    [i \in 1..Len(p) |-> FAdd(p[i], FMulDiv(dt, F[i], 2 * TicksPerUnit))]

\* q += dt * p / self.mass
drift(q, dt, p, mass) ==
    [i \in 1..Len(q) |-> FAdd(q[i], FMulDiv(dt, p[i], TicksPerUnit * mass[i]))]

\* The three updates of _verlet_step on the arrays q and p; `copied` says
\* whether q and p are copies of the arrays of `state` or those arrays
\* themselves.  The result carries the new PhaseSpace (state), the argument
\* object as the call leaves it (arg), and the numbers of force and potential
\* evaluations made.  The operators below are its statements, last first.

\* return PhaseSpace(q=q, p=p), or the exception of one of the force calls
verlet_return(state, copied, F1, p1, F2, p2) ==
    IF F1.exc # "none"
    THEN [exc |-> F1.exc, state |-> state,
          arg |-> IF copied THEN state ELSE [q |-> F1.q, p |-> state.p],
          fcalls |-> 1, pcalls |-> F1.pcalls]
    ELSE IF F2.exc # "none"
    THEN [exc |-> F2.exc, state |-> state,
          arg |-> IF copied THEN state ELSE [q |-> F2.q, p |-> p1],
          fcalls |-> 2, pcalls |-> F1.pcalls + F2.pcalls]
    ELSE [exc |-> "none", state |-> [q |-> F2.q, p |-> p2],
          arg |-> IF copied THEN state ELSE [q |-> F2.q, p |-> p2],
          fcalls |-> 2, pcalls |-> F1.pcalls + F2.pcalls]

\* F = self.force(q); p += 0.5 * dt * F     (the second half step)
verlet_second_kick(state, dt, copied, F1, p1, F2) ==
    verlet_return(state, copied, F1, p1, F2, kick(p1, dt, F2.grad))

\* the drift taken with the mass of the kinetic method: q += dt * p / m
verlet_drift_kinetic(sys, state, dt, copied, F1, p1) ==
    verlet_second_kick(state, dt, copied, F1, p1,
                       force(sys, drift(F1.q, dt, p1,
                                        [i \in 1..Len(F1.q) |-> sys.kinetic_m])))

\* q += dt * p / self.mass
verlet_drift(sys, state, dt, copied, F1, p1) ==
    verlet_second_kick(state, dt, copied, F1, p1,
                       force(sys, drift(F1.q, dt, p1, sys.mass)))

\* F = self.force(q); p += 0.5 * dt * F     (the first half step)
verlet_first_kick(sys, state, dt, copied, F1) ==
    verlet_drift(sys, state, dt, copied, F1, kick(state.p, dt, F1.grad))

verlet_updates(sys, state, dt, copied) ==
    verlet_first_kick(sys, state, dt, copied, force(sys, state.q))

\* _verlet_step with the second force taken at the old position
verlet_step_stale_force(sys, state, dt) ==
    LET F1 == force(sys, state.q)
        p1 == kick(state.p, dt, F1.grad)
        q1 == drift(F1.q, dt, p1, sys.mass)
        p2 == kick(p1, dt, F1.grad)
    IN  IF F1.exc # "none"
        THEN [exc |-> F1.exc, state |-> state, arg |-> state,
              fcalls |-> 1, pcalls |-> F1.pcalls]
        ELSE [exc |-> "none", state |-> [q |-> q1, p |-> p2], arg |-> state,
              fcalls |-> 2, pcalls |-> 2 * F1.pcalls]

\* _verlet_step(state, dt): q, p = state.q.copy(), state.p.copy()
verlet_step(sys, state, dt) == verlet_updates(sys, state, dt, TRUE)

---------------------------------------------------------------------------
(* evolve *)

\* int(a / b) for b # 0: the quotient truncated towards zero
TruncDiv(a, b) ==
    IF (a < 0) = (b < 0) THEN Abs(a) \div Abs(b) ELSE -(Abs(a) \div Abs(b))

\* np.linspace(0, t_max, n) for n >= 0: sample i is i * t_max / (n - 1),
\* carried as the fraction <<numerator, denominator>> of ticks
linspace(t_max, n) ==
    [i \in 1..n |-> <<(i - 1) * t_max, IF n > 1 THEN n - 1 ELSE 1>>]

Idle ==
    [pc |-> "idle", sys |-> HamiltonianSystem_init("HamiltonianSystem", 0, NoMass),
     initial |-> [q |-> <<>>, p |-> <<>>], t_max |-> 0, dt |-> 0,
     method |-> "verlet", n_steps |-> 0, times |-> <<>>, q_traj |-> <<>>,
     p_traj |-> <<>>, state |-> [q |-> <<>>, p |-> <<>>], i |-> 0,
     exc |-> "none", written |-> 0, steps |-> 0, fcalls |-> 0, pcalls |-> 0]

\* evolve, from the call to the head of the loop: n_steps, times, the two
\* zero-filled trajectories and the copy of the initial state
evolve_enter(sys, initial, t_max, dt, method) ==
    LET call    == [Idle EXCEPT !.sys = sys, !.initial = initial, !.t_max = t_max,
                                !.dt = dt, !.method = method]
        n_steps == TruncDiv(t_max, dt)
    IN  IF dt = 0
        THEN [call EXCEPT !.pc = "raised", !.exc = "ZeroDivisionError"]
        ELSE IF n_steps < 0
        THEN [call EXCEPT !.pc = "raised", !.exc = "ValueError", !.n_steps = n_steps]
        ELSE [call EXCEPT !.pc = "loop",
                          !.n_steps = n_steps,
                          !.times   = linspace(t_max, n_steps),
                          !.q_traj  = [r \in 1..n_steps |-> zeros(sys.n_dof)],
                          !.p_traj  = [r \in 1..n_steps |-> zeros(sys.n_dof)],
                          !.state   = initial]

\* the loop run on the caller's object: no copy on entry, the step updating
\* its argument in place
evolve_step_in_place(rec, step) ==
    IF step.exc # "none"
    THEN [rec EXCEPT !.pc = "raised", !.exc = step.exc,
                     !.fcalls = @ + step.fcalls, !.pcalls = @ + step.pcalls]
    ELSE [rec EXCEPT !.state = step.state, !.initial = step.state,
                     !.i = @ + 1, !.steps = @ + 1,
                     !.fcalls = @ + step.fcalls, !.pcalls = @ + step.pcalls]

\* state = self._verlet_step(state, dt), taken after row i was written
evolve_step(rec, step) ==
    IF step.exc # "none"
    THEN [rec EXCEPT !.pc = "raised", !.exc = step.exc,
                     !.fcalls = @ + step.fcalls, !.pcalls = @ + step.pcalls]
    ELSE [rec EXCEPT !.state = step.state, !.i = @ + 1, !.steps = @ + 1,
                     !.fcalls = @ + step.fcalls, !.pcalls = @ + step.pcalls]

\* q_traj[i] = state.q; p_traj[i] = state.p
evolve_record(e) ==
    [e EXCEPT !.q_traj[e.i + 1] = e.state.q, !.p_traj[e.i + 1] = e.state.p,
              !.written = @ + 1]

\* the row written from the state after the step
evolve_record_next(e, step) ==
    evolve_step([e EXCEPT !.q_traj[e.i + 1] = step.state.q,
                          !.p_traj[e.i + 1] = step.state.p,
                          !.written = @ + 1], step)

\* one pass of the loop body with the step taken before row i is written
evolve_body_step_first(e) ==
    IF e.method = "verlet"
    THEN evolve_record_next(e, verlet_step(e.sys, e.state, e.dt))
    ELSE [evolve_record(e) EXCEPT !.pc = "raised", !.exc = "ValueError"]

\* one pass of the loop body: row i is written, then the step is taken
evolve_body(e) ==
    IF e.method = "verlet"
    THEN evolve_step(evolve_record(e), verlet_step(e.sys, e.state, e.dt))
    ELSE [evolve_record(e) EXCEPT !.pc = "raised", !.exc = "ValueError"]

RECURSIVE evolve_loop(_)
\* for i in range(n_steps): ...; return times, q_traj, p_traj
evolve_loop(e) ==
    IF e.pc # "loop" THEN e
    ELSE IF e.i < e.n_steps THEN evolve_loop(evolve_body(e))
    ELSE [e EXCEPT !.pc = "returned"]

\* evolve(initial_state, t_max, dt, method), from the call to its return or
\* its exception
evolve(sys, initial, t_max, dt, method) ==
    evolve_loop(evolve_enter(sys, initial, t_max, dt, method))

---------------------------------------------------------------------------
(* PhaseSpace *)

\* PhaseSpace(q, p) without the assertion
PhaseSpace_init_unchecked(q, p) == [exc |-> "none", q |-> q, p |-> p]

\* PhaseSpace(q, p): __post_init__ converts both to arrays and asserts that
\* their shapes agree
PhaseSpace_init(q, p) ==
    IF Len(q) = Len(p)
    THEN [exc |-> "none", q |-> q, p |-> p]
    ELSE [exc |-> "AssertionError", q |-> q, p |-> p]

\* copy() that shares the arrays of the object copied
PhaseSpace_copy_shallow(pt, fresh) == [q |-> pt.q, p |-> pt.p]

\* copy(): PhaseSpace(q=self.q.copy(), p=self.p.copy()); the result names
\* the arrays of the new object, given the object copied and the first
\* unused array id
PhaseSpace_copy(pt, fresh) == [q |-> fresh, p |-> fresh + 1]

\* the values a PhaseSpace object holds
Val(pt) == [q |-> arrays[pt.q], p |-> arrays[pt.p]]

---------------------------------------------------------------------------
(* Symbolic expressions.  The engine computes with SymPy expressions; the   *)
(* model carries the polynomials among them, in the variables q0.., p0..    *)
(* of one engine and with rational coefficients.  A rational is <<n, d>>    *)
(* in lowest terms with d > 0; a monomial is the tuple of the exponents of  *)
(* (q0, .., q(n-1), p0, .., p(n-1)); a polynomial maps each monomial of a   *)
(* non-zero coefficient to that coefficient, which is the form simplify     *)
(* brings a polynomial to.                                                  *)

RECURSIVE GCD(_, _)
GCD(a, b) == IF b = 0 THEN a ELSE GCD(b, a % b)

Rat(n, d) ==
    LET g == GCD(Abs(n), Abs(d))
        s == IF d < 0 THEN -1 ELSE 1
    IN  <<(s * n) \div g, (s * d) \div g>>

RatAdd(a, b) == Rat(a[1] * b[2] + b[1] * a[2], a[2] * b[2])

RatMul(a, b) == Rat(a[1] * b[1], a[2] * b[2])

RatNeg(a) == <<-a[1], a[2]>>

RECURSIVE RatSum(_, _)
\* the sum of val[x] over the finite set S
RatSum(S, val) ==
    IF S = {} THEN <<0, 1>>
    ELSE LET x == CHOOSE y \in S : TRUE
         IN  RatAdd(val[x], RatSum(S \ {x}, val))

\* the terms of a non-zero coefficient
Clean(f) == [m \in {x \in DOMAIN f : f[x][1] # 0} |-> f[m]]

Coef(f, m) == IF m \in DOMAIN f THEN f[m] ELSE <<0, 1>>

PolyZero == [m \in {} |-> <<0, 1>>]

\* c * (the monomial m)
Term(c, m) == Clean([x \in {m} |-> c])

\* the number c as an expression of an engine with nvars variables
Number(c, nvars) == Term(c, [i \in 1..nvars |-> 0])

\* variable v, 1 <= v <= nvars
Symbol(v, nvars) == Term(<<1, 1>>, [i \in 1..nvars |-> IF i = v THEN 1 ELSE 0])

PolyAdd(f, g) ==
    Clean([m \in DOMAIN f \cup DOMAIN g |-> RatAdd(Coef(f, m), Coef(g, m))])

PolyScale(c, f) == Clean([m \in DOMAIN f |-> RatMul(c, f[m])])

PolyNeg(f) == [m \in DOMAIN f |-> RatNeg(f[m])]

PolySub(f, g) == PolyAdd(f, PolyNeg(g))

MonoMul(a, b) == [i \in DOMAIN a |-> a[i] + b[i]]

PolyMul(f, g) ==
    LET pairs == (DOMAIN f) \X (DOMAIN g)
        prod  == [pr \in pairs |-> RatMul(f[pr[1]], g[pr[2]])]
    IN  Clean([m \in {MonoMul(pr[1], pr[2]) : pr \in pairs} |->
                  RatSum({pr \in pairs : MonoMul(pr[1], pr[2]) = m}, prod)])

\* diff(f, v): the partial derivative of f with respect to variable v
diff(f, v) ==
    LET with == {a \in DOMAIN f : a[v] > 0}
    IN  [m \in {[a EXCEPT ![v] = @ - 1] : a \in with} |->
           LET a == [m EXCEPT ![v] = @ + 1]
           IN  RatMul(<<a[v], 1>>, f[a])]

RECURSIVE RatPow(_, _)
RatPow(x, n) == IF n = 0 THEN <<1, 1>> ELSE RatMul(x, RatPow(x, n - 1))

RECURSIVE MonoSubs(_, _, _)
\* the product of vals[v]^m[v] over the variables of S
MonoSubs(m, vals, S) ==
    IF S = {} THEN <<1, 1>>
    ELSE LET v == CHOOSE x \in S : TRUE
         IN  RatMul(RatPow(vals[v], m[v]), MonoSubs(m, vals, S \ {v}))

\* the substitution left out
subs_nothing(f, vals) == f

\* f.subs(vals): every variable of DOMAIN vals replaced by its number
subs(f, vals) ==
    LET rest(a) == [v \in DOMAIN a |-> IF v \in DOMAIN vals THEN 0 ELSE a[v]]
        part    == [a \in DOMAIN f |-> RatMul(f[a], MonoSubs(a, vals, DOMAIN vals))]
    IN  Clean([m \in {rest(a) : a \in DOMAIN f} |->
                  RatSum({a \in DOMAIN f : rest(a) = m}, part)])

---------------------------------------------------------------------------
(* SymbolicHamiltonian *)

None == [none |-> TRUE, val |-> <<>>]

Some(v) == [none |-> FALSE, val |-> v]

\* SymbolicHamiltonian(n_dof): q = symbols q0..q(n-1), p = symbols p0..p(n-1),
\* H and the two caches None
SymbolicHamiltonian_init(n_dof) ==
    [n_dof |-> n_dof, H |-> None, dH_dq |-> None, dH_dp |-> None]

\* self.q[i] and self.p[i], i counted from 1
q_sym(s, i) == Symbol(i, 2 * s.n_dof)

p_sym(s, i) == Symbol(s.n_dof + i, 2 * s.n_dof)

\* set_hamiltonian that keeps the caches
set_hamiltonian_keep_cache(s, H_expr) == [s EXCEPT !.H = Some(H_expr)]

\* set_hamiltonian(H_expr)
set_hamiltonian(s, H_expr) ==
    [s EXCEPT !.H = Some(H_expr), !.dH_dq = None, !.dH_dp = None]

\* hamilton_equations(): the exception or the pair returned, and the engine
\* as the call leaves it
hamilton_equations(s) ==
    IF s.H.none
    THEN [exc |-> "ValueError", val |-> <<>>, sh |-> s]
    ELSE LET dp == IF s.dH_dp.none
                   THEN [i \in 1..s.n_dof |-> diff(s.H.val, s.n_dof + i)]
                   ELSE s.dH_dp.val
             dq == IF s.dH_dq.none
                   THEN [i \in 1..s.n_dof |-> PolyNeg(diff(s.H.val, i))]
                   ELSE s.dH_dq.val
         IN  [exc |-> "none", val |-> <<dp, dq>>,
              sh  |-> [s EXCEPT !.dH_dp = Some(dp), !.dH_dq = Some(dq)]]

RECURSIVE bracket_sum_swapped(_, _, _, _)
\* the same sum with the two products exchanged
bracket_sum_swapped(s, f, g, from) ==
    IF from > s.n_dof THEN PolyZero
    ELSE PolyAdd(PolySub(PolyMul(diff(f, s.n_dof + from), diff(g, from)),
                         PolyMul(diff(f, from), diff(g, s.n_dof + from))),
                 bracket_sum_swapped(s, f, g, from + 1))

RECURSIVE bracket_sum(_, _, _, _)
\* the sum over i >= from of diff(f, q_i)*diff(g, p_i) - diff(f, p_i)*diff(g, q_i)
bracket_sum(s, f, g, from) ==
    IF from > s.n_dof THEN PolyZero
    ELSE PolyAdd(PolySub(PolyMul(diff(f, from), diff(g, s.n_dof + from)),
                         PolyMul(diff(f, s.n_dof + from), diff(g, from))),
                 bracket_sum(s, f, g, from + 1))

\* poisson_bracket(f, g) for f, g expressions or None; diff of None raises
\* the exception err
poisson_bracket(s, f, g, err) ==
    IF s.n_dof > 0 /\ (f.none \/ g.none)
    THEN [exc |-> err, val |-> <<>>]
    ELSE [exc |-> "none", val |-> Some(bracket_sum(s, f.val, g.val, 1))]

RECURSIVE sum_p(_, _)
\* sum(self.p)
sum_p(s, from) ==
    IF from > s.n_dof THEN PolyZero ELSE PolyAdd(p_sym(s, from), sum_p(s, from + 1))

\* L_z = q[0]*p[1] - q[1]*p[0]
L_z(s) == PolySub(PolyMul(q_sym(s, 1), p_sym(s, 2)), PolyMul(q_sym(s, 2), p_sym(s, 1)))

\* the angular momentum never entered
conserved_angular_never(s, conserved, bracket) ==
    IF bracket.exc # "none" THEN [exc |-> bracket.exc, val |-> <<>>]
    ELSE [exc |-> "none", val |-> conserved]

\* the conserved dictionary after the angular momentum test
conserved_angular(s, conserved, bracket) ==
    IF bracket.exc # "none" THEN [exc |-> bracket.exc, val |-> <<>>]
    ELSE [exc |-> "none",
          val |-> IF bracket.val.val = PolyZero
                  THEN conserved @@ ("angular_momentum" :> Some(L_z(s)))
                  ELSE conserved]

\* the momentum entered without the test
conserved_momentum_always(s, bracket, err) ==
    IF bracket.exc # "none" THEN [exc |-> bracket.exc, val |-> <<>>]
    ELSE IF s.n_dof >= 2
    THEN conserved_angular(s, ("energy" :> s.H) @@ ("momentum" :> Some(sum_p(s, 1))),
                           poisson_bracket(s, Some(L_z(s)), s.H, err))
    ELSE [exc |-> "none",
          val |-> ("energy" :> s.H) @@ ("momentum" :> Some(sum_p(s, 1)))]

\* the conserved dictionary after the momentum test
conserved_momentum(s, bracket, err) ==
    IF bracket.exc # "none" THEN [exc |-> bracket.exc, val |-> <<>>]
    ELSE IF s.n_dof >= 2
    THEN conserved_angular(s,
            IF bracket.val.val = PolyZero
            THEN ("energy" :> s.H) @@ ("momentum" :> Some(sum_p(s, 1)))
            ELSE ("energy" :> s.H),
            poisson_bracket(s, Some(L_z(s)), s.H, err))
    ELSE [exc |-> "none",
          val |-> IF bracket.val.val = PolyZero
                  THEN ("energy" :> s.H) @@ ("momentum" :> Some(sum_p(s, 1)))
                  ELSE ("energy" :> s.H)]

\* find_conserved_quantities()
find_conserved_quantities(s, err) ==
    conserved_momentum(s, poisson_bracket(s, Some(sum_p(s, 1)), s.H, err), err)

\* sp.zeros(n, n), sp.eye(n), Matrix.hstack, Matrix.vstack, unary minus
sp_zeros(n) == [i \in 1..n |-> [j \in 1..n |-> 0]]

sp_eye(n) == [i \in 1..n |-> [j \in 1..n |-> IF i = j THEN 1 ELSE 0]]

hstack(A, B) == [i \in 1..Len(A) |-> A[i] \o B[i]]

vstack(A, B) == A \o B

MatNeg_unsigned(A) == A

MatNeg(A) == [i \in 1..Len(A) |-> [j \in 1..Len(A[i]) |-> -A[i][j]]]

\* symplectic_matrix()
symplectic_matrix(s) ==
    vstack(hstack(sp_zeros(s.n_dof), sp_eye(s.n_dof)),
           hstack(MatNeg(sp_eye(s.n_dof)), sp_zeros(s.n_dof)))

\* generate_equations_of_motion(), given the outcome of its hamilton_equations
\* call: the callable is carried as the expressions it was compiled from
equations_of_motion(eqs) ==
    IF eqs.exc # "none" THEN eqs
    ELSE [eqs EXCEPT !.val = [dstate_dt |-> eqs.val[1] \o eqs.val[2]]]

generate_equations_of_motion(s) == equations_of_motion(hamilton_equations(s))

\* Python values handed to a callable: a number, or a sequence of values
Num(x) == [kind |-> "num", v |-> x, items |-> <<>>]

Vec(xs) == [kind |-> "seq", v |-> 0, items |-> xs]

\* the number an expression takes where variable i has the value point[i].v
ValueAt(expr, point) ==
    Coef(subs(expr, [i \in 1..Len(point) |-> <<point[i].v, 1>>]),
         [i \in 1..Len(point) |-> 0])

\* f_numerical = lambdify([self.q + self.p], dstate_dt): a function of ONE
\* parameter, which it unpacks into the 2n names q0.., p0..; args are the
\* positional arguments of a call
f_numerical(dstate_dt, args) ==
    IF Len(args) # 1 THEN [exc |-> "TypeError", val |-> <<>>]
    ELSE IF args[1].kind # "seq" THEN [exc |-> "TypeError", val |-> <<>>]
    ELSE IF Len(args[1].items) # Len(dstate_dt) THEN [exc |-> "ValueError", val |-> <<>>]
    ELSE IF \E i \in 1..Len(args[1].items) : args[1].items[i].kind # "num"
    THEN [exc |-> "TypeError", val |-> <<>>]
    ELSE [exc |-> "none",
          val |-> [i \in 1..Len(dstate_dt) |-> ValueAt(dstate_dt[i], args[1].items)]]

\* the returned closure equations_of_motion(t, state):
\* np.array(f_numerical(*state), dtype=float); args are the positional
\* arguments of a call.  The numbers are carried exactly.
equations_of_motion_call(fn, args) ==
    IF Len(args) # 2 THEN [exc |-> "TypeError", val |-> <<>>]
    ELSE IF args[2].kind # "seq" THEN [exc |-> "TypeError", val |-> <<>>]
    ELSE f_numerical(fn.dstate_dt, args[2].items)

\* linearize_around_equilibrium(q_eq, p_eq), given the outcome of its
\* hamilton_equations call
jacobian(s, eqs, q_eq, p_eq) ==
    IF eqs.exc # "none" THEN eqs
    ELSE [eqs EXCEPT !.val =
            [i \in 1..(2 * s.n_dof) |->
                [j \in 1..(2 * s.n_dof) |->
                    subs(diff((eqs.val[1] \o eqs.val[2])[i], j),
                         [v \in {k \in 1..(2 * s.n_dof) :
                                     \/ k <= s.n_dof /\ k <= Len(q_eq)
                                     \/ k > s.n_dof /\ k - s.n_dof <= Len(p_eq)} |->
                             IF v <= s.n_dof THEN <<q_eq[v], 1>>
                             ELSE <<p_eq[v - s.n_dof], 1>>])]]]

linearize_around_equilibrium(s, q_eq, p_eq) ==
    jacobian(s, hamilton_equations(s), q_eq, p_eq)

RECURSIVE oscillators(_, _, _, _)
\* H = 0; for q_i, p_i in zip(sh.q, sh.p): H += p_i**2 / (2*m) + 1/2 * k * q_i**2
oscillators(s, k, m, from) ==
    IF from > s.n_dof THEN PolyZero
    ELSE PolyAdd(PolyAdd(PolyScale(Rat(1, 2 * m), PolyMul(p_sym(s, from), p_sym(s, from))),
                         PolyScale(Rat(k, 2), PolyMul(q_sym(s, from), q_sym(s, from)))),
                 oscillators(s, k, m, from + 1))

RECURSIVE couplings(_, _, _)
\* for i in range(n_dof - 1): H += 1/2 * k_c * (sh.q[i] - sh.q[i+1])**2
couplings(s, k_c, from) ==
    IF from > s.n_dof - 1 THEN PolyZero
    ELSE PolyAdd(PolyScale(Rat(k_c, 2),
                           PolyMul(PolySub(q_sym(s, from), q_sym(s, from + 1)),
                                   PolySub(q_sym(s, from), q_sym(s, from + 1)))),
                 couplings(s, k_c, from + 1))

\* harmonic_oscillator_hamiltonian(n_dof, k, m)
harmonic_oscillator_hamiltonian(n_dof, k, m) ==
    set_hamiltonian(SymbolicHamiltonian_init(n_dof),
                    oscillators(SymbolicHamiltonian_init(n_dof), k, m, 1))

\* coupled_oscillators_hamiltonian(n_dof, k, k_c, m)
coupled_oscillators_hamiltonian(n_dof, k, k_c, m) ==
    set_hamiltonian(SymbolicHamiltonian_init(n_dof),
                    PolyAdd(oscillators(SymbolicHamiltonian_init(n_dof), k, m, 1),
                            couplings(SymbolicHamiltonian_init(n_dof), k_c, 1)))

---------------------------------------------------------------------------
(* Inputs *)

\* the vectors a caller writes into a PhaseSpace or passes to a system
Vectors == {<<Scale>>, <<0>>, <<Scale, 0>>, <<0, Scale>>}

\* the PhaseSpace values offered to evolve: those the constructor accepts
InitialStates ==
    {[q |-> r.q, p |-> r.p] :
        r \in {c \in {PhaseSpace_init(q, p) : q \in Vectors, p \in Vectors} :
                 c.exc = "none"}}

Dofs == {Len(s.q) : s \in InitialStates}

MassVals == (-1)..MaxMass

MassArgs(n) == {NoMass} \cup {Mass(m) : m \in [1..n -> MassVals]}

CoordLists == {<<"x">>, <<"x1", "x2">>}

Definitions ==
    [coordinates : CoordLists, kinetic : BOOLEAN, potential : BOOLEAN, m : {1}]

Methods == {"verlet", "rk4"}

\* the caller holds no SymbolicHamiltonian yet
NoEngine == SymbolicHamiltonian_init(0)

\* a call as `last` records it: the operation, the exception raised ("none"
\* when it returned), the arguments, the value returned, the arguments as the
\* call left them, and the number of force evaluations it made
NoCall ==
    [op |-> "none", exc |-> "none", arg |-> <<>>, val |-> <<>>, after |-> <<>>,
     fcalls |-> 0]

---------------------------------------------------------------------------
(* State machine *)

Init ==
    /\ arrays = <<>>
    /\ points = <<>>
    /\ systems = {}
    /\ last = NoCall
    /\ ev = Idle
    /\ sh = NoEngine

\* p = PhaseSpace(q=np.array(q), p=np.array(p))
NewPhaseSpace(q, p) ==
    LET r == PhaseSpace_init(q, p)
        n == Len(arrays)
    IN  /\ ev.pc = "idle"
        /\ Len(points) < MaxPoints
        /\ last' = [NoCall EXCEPT !.op = "PhaseSpace", !.exc = r.exc, !.arg = <<q, p>>]
        /\ IF r.exc = "none"
           THEN /\ arrays' = arrays \o <<r.q, r.p>>
                /\ points' = Append(points, [q |-> n + 1, p |-> n + 2, copy_of |-> 0])
           ELSE UNCHANGED <<arrays, points>>
        /\ UNCHANGED <<systems, ev, sh>>

\* points[k].copy()
Copy(k) ==
    LET c == PhaseSpace_copy(points[k], Len(arrays) + 1)
        r == PhaseSpace_init(arrays[points[k].q], arrays[points[k].p])
    IN  /\ ev.pc = "idle"
        /\ Len(points) < MaxPoints
        /\ arrays' = [i \in 1..(Len(arrays) + 2) |->
                        IF i <= Len(arrays) THEN arrays[i]
                        ELSE IF i = Len(arrays) + 1 THEN r.q ELSE r.p]
        /\ points' = Append(points, [q |-> c.q, p |-> c.p, copy_of |-> k])
        /\ last' = [NoCall EXCEPT !.op = "copy", !.exc = r.exc, !.arg = <<k>>]
        /\ UNCHANGED <<systems, ev, sh>>

\* points[k].q[i] = v  or  points[k].p[i] = v
SetItem(k, field, i, v) ==
    LET id == IF field = "q" THEN points[k].q ELSE points[k].p
    IN  /\ ev.pc = "idle"
        /\ i \in 1..Len(arrays[id])
        /\ arrays' = [arrays EXCEPT ![id][i] = v]
        /\ last' = [NoCall EXCEPT !.op = "setitem", !.arg = <<k, field, i, v>>]
        /\ UNCHANGED <<points, systems, ev, sh>>

\* HamiltonianSystem(n_dof, mass), or the same through a subclass
NewSystem(cls, n_dof, mass) ==
    /\ ev.pc = "idle"
    /\ systems' = {HamiltonianSystem_init(cls, n_dof, mass)}
    /\ last' = [NoCall EXCEPT !.op = "HamiltonianSystem", !.arg = <<cls, n_dof, mass>>]
    /\ UNCHANGED <<arrays, points, ev, sh>>

\* define_system(cls)()
DefineSystem(defn) ==
    /\ ev.pc = "idle"
    /\ systems' = {define_system(defn)}
    /\ last' = [NoCall EXCEPT !.op = "define_system", !.arg = <<defn>>]
    /\ UNCHANGED <<arrays, points, ev, sh>>

\* system.potential(q)
CallPotential(sys, q) ==
    /\ ev.pc = "idle"
    /\ \E r \in {potential(sys, q)} :
            /\ last' = [NoCall EXCEPT !.op = "potential", !.exc = r.exc, !.arg = <<q>>,
                                      !.val = r.val, !.after = <<q>>]
            /\ UNCHANGED <<arrays, points, systems, ev, sh>>

\* system.kinetic(p)
CallKinetic(sys, p) ==
    /\ ev.pc = "idle"
    /\ \E r \in {kinetic(sys, p)} :
            /\ last' = [NoCall EXCEPT !.op = "kinetic", !.exc = r.exc, !.arg = <<p>>,
                                      !.val = r.val, !.after = <<p>>]
            /\ UNCHANGED <<arrays, points, systems, ev, sh>>

\* system.hamiltonian(q, p)
CallHamiltonian(sys, q, p) ==
    /\ ev.pc = "idle"
    /\ \E r \in {hamiltonian(sys, q, p)} :
            /\ last' = [NoCall EXCEPT !.op = "hamiltonian", !.exc = r.exc, !.arg = <<q, p>>,
                                      !.val = r.val, !.after = <<q, p>>]
            /\ UNCHANGED <<arrays, points, systems, ev, sh>>

\* system.force(q)
CallForce(sys, q) ==
    /\ ev.pc = "idle"
    /\ \E r \in {force(sys, q)} :
            /\ last' = [NoCall EXCEPT !.op = "force", !.exc = r.exc, !.arg = <<q>>,
                                      !.val = r.grad, !.after = <<r.q>>]
            /\ UNCHANGED <<arrays, points, systems, ev, sh>>

\* system._verlet_step(state, dt)
CallVerletStep(sys, state, dt) ==
    /\ ev.pc = "idle"
    /\ \E r \in {verlet_step(sys, state, dt)} :
            /\ last' = [NoCall EXCEPT !.op = "_verlet_step", !.exc = r.exc,
                                      !.arg = <<state, dt>>, !.val = r.state,
                                      !.after = <<r.arg, dt>>, !.fcalls = r.fcalls]
            /\ UNCHANGED <<arrays, points, systems, ev, sh>>

\* system.evolve(initial, t_max, dt, method), up to the head of the loop
EvolveCall(sys, initial, t_max, dt, method) ==
    /\ ev.pc = "idle"
    /\ Len(initial.q) = sys.n_dof
    /\ Len(sys.mass) = sys.n_dof
    /\ ev' = evolve_enter(sys, initial, t_max, dt, method)
    /\ last' = [NoCall EXCEPT !.op = "evolve"]
    /\ UNCHANGED <<arrays, points, systems, sh>>

\* for i in range(n_steps): one pass
EvolveIter ==
    /\ ev.pc = "loop"
    /\ ev.i < ev.n_steps
    /\ ev' = evolve_body(ev)
    /\ UNCHANGED <<arrays, points, systems, last, sh>>

\* return times, q_traj, p_traj
EvolveReturn ==
    /\ ev.pc = "loop"
    /\ ev.i >= ev.n_steps
    /\ ev' = [ev EXCEPT !.pc = "returned"]
    /\ UNCHANGED <<arrays, points, systems, last, sh>>

\* the caller is done with the result, or has caught the exception
EvolveDone ==
    /\ ev.pc \in {"returned", "raised"}
    /\ ev' = Idle
    /\ UNCHANGED <<arrays, points, systems, last, sh>>

TMaxVals == (-1)..MaxT

DtVals == (-1)..MaxDt

Construct ==
    \/ \E cls \in {"HamiltonianSystem", "Subclass"}, n \in Dofs :
         \E mass \in MassArgs(n) : NewSystem(cls, n, mass)
    \/ \E defn \in Definitions : DefineSystem(defn)

Calls ==
    \E sys \in systems :
       \/ \E q \in Vectors : CallPotential(sys, q)
       \/ \E p \in Vectors : Len(p) = sys.n_dof /\ Len(sys.mass) = sys.n_dof
                             /\ CallKinetic(sys, p)
       \/ \E s \in InitialStates : Len(s.q) = sys.n_dof /\ Len(sys.mass) = sys.n_dof
                                   /\ CallHamiltonian(sys, s.q, s.p)
       \/ \E q \in Vectors : CallForce(sys, q)
       \/ \E s \in InitialStates, dt \in DtVals :
             Len(s.q) = sys.n_dof /\ Len(sys.mass) = sys.n_dof
             /\ CallVerletStep(sys, s, dt)

Evolve ==
    \/ \E sys \in systems, s \in InitialStates, t_max \in TMaxVals, dt \in DtVals,
          method \in Methods : EvolveCall(sys, s, t_max, dt, method)
    \/ EvolveIter
    \/ EvolveReturn
    \/ EvolveDone

Next == Construct \/ Calls \/ Evolve

Spec == Init /\ [][Next]_vars

(* PhaseSpace objects on their own *)
NextPhaseSpace ==
    \/ \E q \in {<<Scale>>, <<Scale, 0>>}, p \in {<<0>>, <<0, Scale>>} :
          NewPhaseSpace(q, p)
    \/ \E k \in 1..Len(points) : Copy(k)
    \/ \E k \in 1..Len(points), field \in {"q", "p"}, i \in 1..2 :
          SetItem(k, field, i, 2 * Scale)

SpecPhaseSpace == Init /\ [][NextPhaseSpace]_vars

(* define_system on every kind of definition, and the systems it builds *)

\* coordinates = [], ['x'], ['x', 'x'], ['x1', 'x2']
DslCoordLists == {<<>>, <<"x">>, <<"x", "x">>, <<"x1", "x2">>}

\* the decorated classes: with a coordinates attribute or without one, with
\* or without a kinetic and a potential method
DslDefinitions ==
    {d \in [coordinates : DslCoordLists, kinetic : BOOLEAN, potential : BOOLEAN,
            m : 1..MaxMass]
          \cup [kinetic : BOOLEAN, potential : BOOLEAN, m : {1}] :
        d.kinetic \/ d.m = 1}

NextDSL ==
    \/ \E defn \in DslDefinitions : DefineSystem(defn)
    \/ Calls
    \/ Evolve

SpecDSL == Init /\ [][NextDSL]_vars

---------------------------------------------------------------------------
(* SymbolicHamiltonian: the engine the caller holds and the calls on it *)

\* the expressions offered to set_hamiltonian on an engine of n degrees of
\* freedom: those the two templates build
\* the engines the two templates return, tabulated over their arguments
HarmonicEngines ==
    [n \in 0..MaxDof, k \in 0..MaxK, m \in 1..MaxMass |->
        harmonic_oscillator_hamiltonian(n, k, m)]

CoupledEngines ==
    [n \in 0..MaxDof, k \in 0..MaxK, k_c \in 0..MaxK, m \in 1..MaxMass |->
        coupled_oscillators_hamiltonian(n, k, k_c, m)]

TemplateHamiltonians ==
    [n \in 0..MaxDof |->
        {HarmonicEngines[n, k, m].H.val : k \in 0..MaxK, m \in 1..MaxMass}
        \cup {CoupledEngines[n, k, k_c, m].H.val :
                 k \in 0..MaxK, k_c \in 0..MaxK, m \in 1..MaxMass}]

Hamiltonians(n) == TemplateHamiltonians[n]

\* the engine's own variables q0.., p0..
Symbols(s) == {q_sym(s, i) : i \in 1..s.n_dof} \cup {p_sym(s, i) : i \in 1..s.n_dof}

\* the exception sympy's diff raises on None
DiffOfNone == {"ValueError", "SympifyError"}

\* sh = SymbolicHamiltonian(n_dof)
NewSymbolic(n_dof) ==
    /\ sh' = SymbolicHamiltonian_init(n_dof)
    /\ last' = [NoCall EXCEPT !.op = "SymbolicHamiltonian", !.arg = <<n_dof>>]
    /\ UNCHANGED <<arrays, points, systems, ev>>

\* sh = harmonic_oscillator_hamiltonian(n_dof, k, m)
Harmonic(n_dof, k, m) ==
    /\ sh' = HarmonicEngines[n_dof, k, m]
    /\ last' = [NoCall EXCEPT !.op = "harmonic_oscillator_hamiltonian",
                              !.arg = <<n_dof, k, m>>]
    /\ UNCHANGED <<arrays, points, systems, ev>>

\* sh = coupled_oscillators_hamiltonian(n_dof, k, k_c, m)
Coupled(n_dof, k, k_c, m) ==
    /\ sh' = CoupledEngines[n_dof, k, k_c, m]
    /\ last' = [NoCall EXCEPT !.op = "coupled_oscillators_hamiltonian",
                              !.arg = <<n_dof, k, k_c, m>>]
    /\ UNCHANGED <<arrays, points, systems, ev>>

\* sh.set_hamiltonian(H_expr)
SetHamiltonian(H_expr) ==
    /\ sh.n_dof >= 1
    /\ sh' = set_hamiltonian(sh, H_expr)
    /\ last' = [NoCall EXCEPT !.op = "set_hamiltonian", !.arg = <<H_expr>>]
    /\ UNCHANGED <<arrays, points, systems, ev>>

\* sh.H = H_expr, the attribute written from outside
AssignH(H_expr) ==
    /\ sh.n_dof >= 1
    /\ sh' = [sh EXCEPT !.H = Some(H_expr)]
    /\ last' = [NoCall EXCEPT !.op = "H", !.arg = <<H_expr>>]
    /\ UNCHANGED <<arrays, points, systems, ev>>

\* sh.hamilton_equations()
HamiltonEquations ==
    /\ sh.n_dof >= 1
    /\ \E r \in {hamilton_equations(sh)} :
          /\ sh' = r.sh
          /\ last' = [NoCall EXCEPT !.op = "hamilton_equations", !.exc = r.exc,
                                    !.val = r.val]
    /\ UNCHANGED <<arrays, points, systems, ev>>

\* sh.poisson_bracket(f, g)
PoissonBracket(f, g) ==
    /\ sh.n_dof >= 1
    /\ \E r \in {poisson_bracket(sh, Some(f), Some(g), "ValueError")} :
          last' = [NoCall EXCEPT !.op = "poisson_bracket", !.exc = r.exc,
                                 !.arg = <<f, g>>, !.val = r.val.val]
    /\ UNCHANGED <<arrays, points, systems, ev, sh>>

\* sh.find_conserved_quantities()
FindConserved ==
    /\ sh.n_dof >= 1
    /\ \E err \in DiffOfNone :
          \E r \in {find_conserved_quantities(sh, err)} :
             last' = [NoCall EXCEPT !.op = "find_conserved_quantities",
                                    !.exc = r.exc, !.val = r.val]
    /\ UNCHANGED <<arrays, points, systems, ev, sh>>

\* sh.symplectic_matrix()
SymplecticMatrix ==
    /\ sh.n_dof >= 1
    /\ last' = [NoCall EXCEPT !.op = "symplectic_matrix", !.val = symplectic_matrix(sh)]
    /\ UNCHANGED <<arrays, points, systems, ev, sh>>

\* sh.generate_equations_of_motion()
GenerateEquationsOfMotion ==
    /\ sh.n_dof >= 1
    /\ \E r \in {generate_equations_of_motion(sh)} :
          /\ sh' = r.sh
          /\ last' = [NoCall EXCEPT !.op = "generate_equations_of_motion",
                                    !.exc = r.exc, !.val = r.val]
    /\ UNCHANGED <<arrays, points, systems, ev>>

\* sh.linearize_around_equilibrium(q_eq, p_eq)
Linearize(q_eq, p_eq) ==
    /\ sh.n_dof >= 1
    /\ \E r \in {linearize_around_equilibrium(sh, q_eq, p_eq)} :
          /\ sh' = r.sh
          /\ last' = [NoCall EXCEPT !.op = "linearize_around_equilibrium",
                                    !.exc = r.exc, !.arg = <<q_eq, p_eq>>,
                                    !.val = r.val]
    /\ UNCHANGED <<arrays, points, systems, ev>>

\* the lists offered as (q_eq, p_eq), of the lengths given: q_eq = c, c+1, ..
\* and p_eq = d, d, ..
EquilibriumPoints(lengths) ==
    {<<[i \in 1..k |-> c + i - 1], [i \in 1..k |-> d]>> :
        k \in lengths, c \in 0..1, d \in 0..1}

NextSymbolic ==
    \/ \E n \in 1..MaxDof : NewSymbolic(n)
    \/ \E n \in 1..MaxDof, k \in 0..MaxK, m \in 1..MaxMass : Harmonic(n, k, m)
    \/ \E n \in 1..MaxDof, k \in 0..MaxK, k_c \in 0..MaxK, m \in 1..MaxMass :
          Coupled(n, k, k_c, m)
    \/ \E H_expr \in Hamiltonians(sh.n_dof) : SetHamiltonian(H_expr)
    \/ HamiltonEquations
    \/ \E f \in Symbols(sh), g \in Symbols(sh) : PoissonBracket(f, g)
    \/ FindConserved
    \/ SymplecticMatrix
    \/ GenerateEquationsOfMotion
    \/ \E eq \in EquilibriumPoints({sh.n_dof}) : Linearize(eq[1], eq[2])

SpecSymbolic == Init /\ [][NextSymbolic]_vars

\* dq_dt, dp_dt = sh.hamilton_equations() has just returned: the two lists
\* are the cache lists themselves, and the caller writes into one of them,
\* dq_dt[i] = expr or dp_dt[i] = expr
SetReturnedItem(which, i, expr) ==
    /\ last.op = "hamilton_equations" /\ last.exc = "none"
    /\ i \in 1..sh.n_dof
    /\ sh' = IF which = "dq_dt" THEN [sh EXCEPT !.dH_dp.val[i] = expr]
                                ELSE [sh EXCEPT !.dH_dq.val[i] = expr]
    /\ last' = [NoCall EXCEPT !.op = "setitem_returned", !.arg = <<which, i, expr>>]
    /\ UNCHANGED <<arrays, points, systems, ev>>

\* the engine's calls, and a returned list written into
NextSymbolicShared ==
    \/ NextSymbolic
    \/ \E which \in {"dq_dt", "dp_dt"}, i \in 1..MaxDof : SetReturnedItem(which, i, PolyZero)

SpecSymbolicShared == Init /\ [][NextSymbolicShared]_vars

RECURSIVE quartic(_, _)
\* the sum over i >= from of q_i**4/4
quartic(s, from) ==
    IF from > s.n_dof THEN PolyZero
    ELSE PolyAdd(PolyScale(<<1, 4>>,
                           PolyMul(PolyMul(q_sym(s, from), q_sym(s, from)),
                                   PolyMul(q_sym(s, from), q_sym(s, from)))),
                 quartic(s, from + 1))

\* expressions beyond the templates offered to set_hamiltonian: the unit
\* oscillators with the quartic potential sum(q_i**4/4) added, and for two
\* degrees of freedom with the cubic coupling q0**2*q1 added as well
Anharmonic(n) ==
    LET s == SymbolicHamiltonian_init(n)
        H == PolyAdd(oscillators(s, 1, 1, 1), quartic(s, 1))
    IN  {H} \cup (IF n >= 2
                  THEN {PolyAdd(H, PolyMul(PolyMul(q_sym(s, 1), q_sym(s, 1)), q_sym(s, 2)))}
                  ELSE {})

\* linearization of the templates and of anharmonic Hamiltonians
NextLinearize ==
    \/ \E n \in 1..MaxDof : NewSymbolic(n)
    \/ \E H_expr \in Hamiltonians(sh.n_dof) \cup Anharmonic(sh.n_dof) :
          SetHamiltonian(H_expr)
    \/ HamiltonEquations
    \/ \E eq \in EquilibriumPoints(0..sh.n_dof) : Linearize(eq[1], eq[2])

SpecLinearize == Init /\ [][NextLinearize]_vars

\* the state vectors [q0.., p0..] of an engine of n degrees of freedom
StateVectors(n) == {Vec(xs) : xs \in [1..(2 * n) -> {Num(0), Num(1)}]}

\* the positional arguments tried on the callable: (state), (t, state) and
\* (t, [state])
CallArguments(n) ==
    {<<x>> : x \in StateVectors(n)}
    \cup {<<Num(0), x>> : x \in StateVectors(n)}
    \cup {<<Num(0), Vec(<<x>>)>> : x \in StateVectors(n)}

\* f = sh.generate_equations_of_motion() has just returned; f(*args)
EquationsOfMotion(args) ==
    /\ last.op = "generate_equations_of_motion" /\ last.exc = "none"
    /\ \E r \in {equations_of_motion_call(last.val, args)} :
          last' = [NoCall EXCEPT !.op = "equations_of_motion", !.exc = r.exc,
                                 !.arg = args, !.val = r.val]
    /\ UNCHANGED <<arrays, points, systems, ev, sh>>

\* the engine's calls, and the callable applied
NextCallable ==
    \/ NextSymbolic
    \/ \E args \in CallArguments(sh.n_dof) : EquationsOfMotion(args)

SpecCallable == Init /\ [][NextCallable]_vars

\* the same calls, and H written as an attribute
NextSymbolicAttr ==
    \/ NextSymbolic
    \/ \E H_expr \in Hamiltonians(sh.n_dof) : AssignH(H_expr)

SpecSymbolicAttr == Init /\ [][NextSymbolicAttr]_vars

---------------------------------------------------------------------------
(* The harmonic oscillator of test_energy_conservation_harmonic_oscillator *)

\* class Oscillator: coordinates = ['x'], kinetic p.px**2 / 2, potential 0.5 * q.x**2
Oscillator ==
    define_system([coordinates |-> <<"x">>, kinetic |-> TRUE, potential |-> TRUE, m |-> 1])

\* PhaseSpace(q=np.array([1.0]), p=np.array([0.0]))
OscInitial == [q |-> <<Scale>>, p |-> <<0>>]

OscTMax == 1000     \* t_max = 10.0, in ticks

OscDt == 1          \* dt = 0.01, in ticks

InitOscillator ==
    /\ arrays = <<>>
    /\ points = <<>>
    /\ systems = {Oscillator}
    /\ last = NoCall
    /\ ev = Idle
    /\ sh = NoEngine

NextOscillator ==
    \/ \E sys \in systems : EvolveCall(sys, OscInitial, OscTMax, OscDt, "verlet")
    \/ EvolveIter
    \/ EvolveReturn

SpecOscillator == InitOscillator /\ [][NextOscillator]_vars

BigAbs(b) == IF b[1] < 0 THEN BigSub(BigZero, b) ELSE b

\* abs(E - E0) / abs(E0) < 1 / den
RelativeErrorBelow(E, E0, den) ==
    LET a   == BigAbs(E0)
        thr == BigFloorDiv(BigNorm(<<a[1], a[2], a[3] + den - 1>>), den)
    IN  BigLess(BigAbs(BigSub(E, E0)), thr)

\* system.hamiltonian(q_traj[r], p_traj[r]) of the trajectory evolve holds
RowEnergy(r) == hamiltonian(ev.sys, ev.q_traj[r], ev.p_traj[r]).val

---------------------------------------------------------------------------
(* CoupledSystem: subsystems, the matrix coupling_strengths and the matrix  *)
(* coupling_functions, whose entries are None (FALSE) or the function of    *)
(* the test, s1.q[0] * s2.q[0] (TRUE).                                      *)

\* x * y as a three-limb integer
BigMul(x, y) ==
    IF ~Fin(x) \/ ~Fin(y) THEN BigNaN
    ELSE LET a == Abs(x)
             b == Abs(y)
             m == <<(a \div Base) * (b \div Base),
                    (a \div Base) * (b % Base) + (a % Base) * (b \div Base),
                    (a % Base) * (b % Base)>>
         IN  IF (x < 0) = (y < 0) THEN BigNorm(m) ELSE BigSub(BigZero, BigNorm(m))

\* def coupling_func(s1, s2): return s1.q[0] * s2.q[0]
coupling_func(s1, s2) == BigMul(s1.q[1], s2.q[1])

\* MarketHamiltonian(liquidity_mass=1.0, ...): a subsystem that has
\* hamiltonian, force and evolve_tick but is no HamiltonianSystem
MarketHamiltonian == HamiltonianSystem_init("MarketHamiltonian", 1, NoMass)

\* hasattr(system, '_verlet_step')
hasattr_verlet_step(system) == system.cls # "MarketHamiltonian"

RECURSIVE coupling_gradient(_, _, _, _)
\* for k in range(len(state_i.q)): the central difference of coupling_func in
\* state_i.q[k], which is perturbed in place and set back
coupling_gradient(state_i, state_j, k, grad) ==
    IF k > Len(state_i.q) THEN grad
    ELSE coupling_gradient(state_i, state_j, k + 1,
             [grad EXCEPT ![k] =
                 FNeg(BigToInt(BigRoundDiv(
                     BigSub(coupling_func([state_i EXCEPT !.q[k] = FAdd(@, epsilon)], state_j),
                            coupling_func([state_i EXCEPT !.q[k] = FAdd(@, -epsilon)], state_j)),
                     2 * epsilon)))])

\* return self.coupling_strengths[i, j] * force
times_strength(c, grad) == [k \in 1..Len(grad) |-> IF Fin(grad[k]) THEN c * grad[k] ELSE NonFinite]

\* _compute_coupling_force(i, j, state_i, state_j)
compute_coupling_force(cs, i, j, state_i, state_j) ==
    IF ~cs.coupling_functions[i][j] THEN zeros(Len(state_i.q))
    ELSE times_strength(cs.coupling_strengths[i][j],
                        coupling_gradient(state_i, state_j, 1, zeros(Len(state_i.q))))

\* new_state.p += dt * coupling_force
add_to_momentum(new_state, dt, coupling_force) ==
    [new_state EXCEPT !.p = [k \in 1..Len(@) |->
                               FAdd(@[k], FMulDiv(dt, coupling_force[k], TicksPerUnit))]]

RECURSIVE add_coupling_forces(_, _, _, _, _, _)
\* for j in range(n): if j != i and coupling_strengths[i, j] != 0:
\*     new_state.p += dt * coupling_force
add_coupling_forces(cs, states, dt, i, j, new_state) ==
    IF j > Len(cs.subsystems) THEN new_state
    ELSE IF j # i /\ cs.coupling_strengths[i][j] # 0
    THEN add_coupling_forces(cs, states, dt, i, j + 1,
             add_to_momentum(new_state, dt,
                             compute_coupling_force(cs, i, j, states[i], states[j])))
    ELSE add_coupling_forces(cs, states, dt, i, j + 1, new_state)

\* Internal evolution: system._verlet_step(state, dt) if the subsystem has
\* one, else new_state = state.copy()
internal_evolution(system, state, dt) ==
    IF hasattr_verlet_step(system)
    THEN verlet_step(system, state, dt)
    ELSE [exc |-> "none", state |-> state]

RECURSIVE evolution_loop(_, _, _, _, _)
\* Add coupling forces; new_states.append(new_state)
evolution_append(cs, states, dt, i, new_states, inner) ==
    IF inner.exc # "none" THEN [exc |-> inner.exc, val |-> <<>>]
    ELSE evolution_loop(cs, states, dt, i + 1,
             Append(new_states, add_coupling_forces(cs, states, dt, i, 1, inner.state)))

\* for i, (system, state) in enumerate(zip(self.subsystems, states)): ...
evolution_loop(cs, states, dt, i, new_states) ==
    IF i > Len(cs.subsystems) \/ i > Len(states)
    THEN [exc |-> "none", val |-> new_states]
    ELSE evolution_append(cs, states, dt, i, new_states,
                          internal_evolution(cs.subsystems[i], states[i], dt))

\* evolution_step(states, dt)
evolution_step(cs, states, dt) == evolution_loop(cs, states, dt, 1, <<>>)

MaxCoupledSteps == 2     \* evolution_step calls chained on one CoupledSystem

\* the subsystems offered: the oscillator of the test and the market of the
\* example
Subsystems == {Oscillator, MarketHamiltonian}

\* CoupledSystem(subsystems=[a, b], coupling_strengths=[[0, c12], [c21, 0]],
\*               coupling_functions=[[None, f], [f, None]]) with f the
\* function of the test or None
CoupledSystems ==
    {[subsystems         |-> <<a, b>>,
      coupling_strengths |-> << <<0, c12>>, <<c21, 0>> >>,
      coupling_functions |-> << <<FALSE, f>>, <<f, FALSE>> >>] :
        a \in Subsystems, b \in Subsystems, c12 \in 0..1, c21 \in 0..1, f \in BOOLEAN}

\* the states of one subsystem: at rest away from the origin, or moving
\* through it
SubsystemStates == {[q |-> <<Scale>>, p |-> <<0>>], [q |-> <<0>>, p |-> <<Scale>>]}

\* states = coupled.evolution_step(states, dt), the nth call of a chain
EvolutionStep(cs, states, dt, nth) ==
    /\ ev.pc = "idle"
    /\ \E r \in {evolution_step(cs, states, dt)} :
          last' = [NoCall EXCEPT !.op = "evolution_step", !.exc = r.exc,
                                 !.arg = <<cs, states, dt, nth>>, !.val = r.val]
    /\ UNCHANGED <<arrays, points, systems, ev, sh>>

NextCoupled ==
    \/ \E cs \in CoupledSystems, s1 \in SubsystemStates, s2 \in SubsystemStates,
          dt \in 1..MaxDt : EvolutionStep(cs, <<s1, s2>>, dt, 1)
    \/ /\ last.op = "evolution_step" /\ last.exc = "none"
       /\ last.arg[4] < MaxCoupledSteps
       /\ EvolutionStep(last.arg[1], last.val, last.arg[3], last.arg[4] + 1)

SpecCoupled == Init /\ [][NextCoupled]_vars

---------------------------------------------------------------------------
(* Properties *)

\* The exceptions the code raises where the specification speaks of a
\* ConfigurationError: the assertion of PhaseSpace.__post_init__ and the
\* NotImplementedError of HamiltonianSystem.potential.
ConfigurationError == {"AssertionError", "NotImplementedError"}

\* ceil(a / b) for a >= 0, b > 0
CeilDiv(a, b) == (a + b - 1) \div b

ValidCall == ev.t_max >= 0 /\ ev.dt > 0

(* C1: for every evolve call with t_max >= 0 and dt > 0, times, q_trajectory
   and p_trajectory each hold exactly ceil(t_max/dt) + 1 samples. *)
C1_SampleCount ==
    (ev.pc = "returned" /\ ValidCall) =>
        /\ Len(ev.times)  = CeilDiv(ev.t_max, ev.dt) + 1
        /\ Len(ev.q_traj) = CeilDiv(ev.t_max, ev.dt) + 1
        /\ Len(ev.p_traj) = CeilDiv(ev.t_max, ev.dt) + 1

(* C2: for every evolve call with t_max >= 0 and dt > 0, the returned times
   are spaced by dt: times[i] = i * dt, the time reached after i steps. *)
C2_TimesSpacedByDt ==
    (ev.pc = "returned" /\ ValidCall) =>
        \A r \in 1..Len(ev.times) :
            ev.times[r][1] = (r - 1) * ev.dt * ev.times[r][2]

\* the force of the potentials of the model in closed form, coordinate i:
\* -q[i] for 0.5 * sum(q**2) (nan as soon as one coordinate is not finite,
\* the potential then being inf), 0 for the constant potential
ClosedForce(sys, q, i) ==
    IF sys.has_potential
    THEN IF \A j \in 1..Len(q) : Fin(q[j]) THEN -q[i] ELSE NonFinite
    ELSE 0

\* velocity Verlet written out for the state (q, p)
Expected_p_half(sys, q, p, dt) ==
    [i \in 1..Len(p) |->
        FAdd(p[i], FMulDiv(dt, ClosedForce(sys, q, i), 2 * TicksPerUnit))]

Expected_q_new(sys, q, p, dt) ==
    [i \in 1..Len(q) |->
        FAdd(q[i], FMulDiv(dt, Expected_p_half(sys, q, p, dt)[i],
                           TicksPerUnit * sys.mass[i]))]

Expected_p_new(sys, q, p, dt) ==
    [i \in 1..Len(p) |->
        FAdd(Expected_p_half(sys, q, p, dt)[i],
             FMulDiv(dt, ClosedForce(sys, Expected_q_new(sys, q, p, dt), i),
                     2 * TicksPerUnit))]

(* C3: a step computes p_half = p + 0.5*dt*force(q), q_new = q + dt*p_half/mass,
   p_new = p_half + 0.5*dt*force(q_new), in this order, with exactly two
   evaluations of force, and leaves its input state as it was. *)
C3_VerletStep ==
    (last.op = "_verlet_step") =>
        \A sys \in systems :
            LET q  == last.arg[1].q
                p  == last.arg[1].p
                dt == last.arg[2]
            IN  IF sys.cls = "HamiltonianSystem"
                THEN last.exc = "NotImplementedError"
                ELSE /\ last.exc = "none"
                     /\ last.fcalls = 2
                     /\ last.after = last.arg
                     /\ last.val.q = Expected_q_new(sys, q, p, dt)
                     /\ last.val.p = Expected_p_new(sys, q, p, dt)

C3_Witness ==
    /\ last.op = "_verlet_step"
    /\ last.exc = "none"
    /\ last.arg[2] > 0
    /\ \E sys \in systems : sys.has_potential /\ sys.mass = <<2, 1>>
    /\ last.val.q # last.arg[1].q
    /\ last.val.p # last.arg[1].p

(* C4: evolve rejects dt <= 0 and t_max < 0, before any call of force or
   potential.  (Stated for any exception, not only a ConfigurationError.) *)
C4_RejectsInvalidStep ==
    (ev.pc # "idle" /\ ~ValidCall) =>
        /\ ev.pc = "raised"
        /\ ev.fcalls = 0
        /\ ev.pcalls = 0

(* C5: every failing evolve call fails before any trajectory row has been
   written and before any integration step has run. *)
C5_FailsBeforeAnyWork ==
    (ev.pc = "raised") =>
        /\ ev.written = 0
        /\ ev.steps = 0
        /\ ev.fcalls = 0

(* C6: for the harmonic oscillator (mass 1, k 1, q0 = 1, p0 = 0) with
   dt = 0.01 and t_max = 10 the relative energy error stays below 1e-3 at
   every sample of the returned trajectory, and below 1e-4 at the last one;
   the same bound holds for the state the last step leaves. *)
C6_EnergyConserved ==
    (ev.pc = "returned") =>
        /\ ev.n_steps >= 1
        /\ \A r \in 1..ev.n_steps :
              RelativeErrorBelow(RowEnergy(r), RowEnergy(1), 1000)
        /\ RelativeErrorBelow(RowEnergy(ev.n_steps), RowEnergy(1), 10000)
        /\ RelativeErrorBelow(hamiltonian(ev.sys, ev.state.q, ev.state.p).val,
                              RowEnergy(1), 1000)

C6_Witness ==
    /\ ev.pc = "returned"
    /\ ev.sys = Oscillator
    /\ ev.initial = OscInitial
    /\ ev.dt = OscDt /\ ev.t_max = OscTMax
    /\ ev.written = OscTMax
    /\ \E r \in 1..ev.n_steps : ev.q_traj[r][1] < 0 /\ RowEnergy(r) # RowEnergy(1)

(* C7: constructing a PhaseSpace whose q and p differ in length fails with a
   ConfigurationError, and every PhaseSpace that exists has len(q) = len(p). *)
C7_LengthsAgree ==
    /\ (last.op = "PhaseSpace" /\ Len(last.arg[1]) # Len(last.arg[2]))
          => last.exc \in ConfigurationError
    /\ \A k \in 1..Len(points) : Len(Val(points[k]).q) = Len(Val(points[k]).p)

C7_Witness ==
    /\ last.op = "PhaseSpace"
    /\ Len(last.arg[1]) # Len(last.arg[2])
    /\ last.exc = "AssertionError"
    /\ Len(points) = 1

(* C8: copy() returns a point equal to the original whose q and p are
   independent of it: a write into one point's q or p changes no other point. *)
C8_CopyIndependent ==
    [][/\ (last'.op = "copy" /\ Len(points') = Len(points) + 1)
            => LET new == points'[Len(points')]
               IN  [q |-> arrays'[new.q], p |-> arrays'[new.p]]
                      = Val(points[last'.arg[1]])
       /\ (last'.op = "setitem")
            => \A k \in 1..Len(points) :
                  k # last'.arg[1] => Val(points[k])' = Val(points[k])]_vars

C8_Witness ==
    /\ Len(points) = 2
    /\ points[2].copy_of = 1
    /\ last.op = "setitem"
    /\ Val(points[1]) # Val(points[2])
    /\ Val(points[1]).q = <<2 * Scale>>
    /\ Val(points[2]).q = <<Scale>>
    /\ Val(points[2]).p = <<2 * Scale>>
    /\ Val(points[1]).p = <<0>>

(* C9: a mass vector with a zero or negative entry is rejected at
   construction; every constructed system has all mass entries > 0. *)
C9_MassPositive ==
    \A sys \in systems : \A i \in 1..Len(sys.mass) : sys.mass[i] > 0

(* C10: potential, hamiltonian, force and a stepping evolve fail with a
   ConfigurationError on a system for which no potential was supplied, a
   base HamiltonianSystem or a system define_system built from a definition
   without a potential function. *)
C10_PotentialRequired ==
    /\ (last.op \in {"potential", "hamiltonian", "force"}
          /\ \A sys \in systems : ~sys.has_potential)
         => last.exc \in ConfigurationError
    /\ (ev.pc \in {"returned", "raised"} /\ ~ev.sys.has_potential /\ ev.written >= 1
          /\ ev.method = "verlet")
         => (ev.pc = "raised" /\ ev.exc \in ConfigurationError)

(* C11: define_system rejects a definition whose coordinate list is empty or
   absent or names a coordinate twice, and produces no system for it. *)
InvalidCoordinates(defn) ==
    LET c == getattr_coordinates(defn)
    IN  \/ Len(c) = 0
        \/ \E i, j \in 1..Len(c) : i < j /\ c[i] = c[j]

C11_RejectsBadCoordinates ==
    (last.op = "define_system" /\ InvalidCoordinates(last.arg[1])) =>
        /\ last.exc # "none"
        /\ define_system(last.arg[1]) \notin systems

(* C12: in a system built from distinct coordinates c_1 .. c_n the potential
   method sees attribute c_i equal to q[i] and the kinetic method sees
   attribute "p" + c_i equal to p[i], and the namespaces hold nothing else. *)
C12_IndexMapping ==
    \A sys \in systems :
        (sys.cls = "CompiledSystem" /\ ~InvalidCoordinates([coordinates |-> sys.coords])) =>
            \A v \in Vectors :
                Len(v) >= Len(sys.coords) =>
                    /\ DOMAIN QNamespace(sys.coords, v) = Range(sys.coords)
                    /\ DOMAIN PNamespace(sys.coords, v)
                           = {"p" \o sys.coords[i] : i \in 1..Len(sys.coords)}
                    /\ \A i \in 1..Len(sys.coords) :
                           /\ QNamespace(sys.coords, v)[sys.coords[i]] = v[i]
                           /\ PNamespace(sys.coords, v)["p" \o sys.coords[i]] = v[i]

\* potential was called on a system of two coordinates with q = [1, 0] and
\* returned 0.5 * 1**2
C12_Witness ==
    /\ last.op = "potential" /\ last.exc = "none"
    /\ last.arg = <<<<Scale, 0>>>>
    /\ last.val = BigSq(Scale)
    /\ \E sys \in systems : sys.cls = "CompiledSystem" /\ sys.coords = <<"x1", "x2">>
                              /\ sys.has_potential

\* the hand-written counterpart of a compiled system: a subclass of
\* HamiltonianSystem with potential 0.5 * sum(q**2), the inherited kinetic
\* sum(p**2 / (2*mass)) and the mass the definition's kinetic divides by
HandWritten(sys) ==
    HamiltonianSystem_init("Subclass", sys.n_dof,
                           Mass([i \in 1..sys.n_dof |-> sys.kinetic_m]))

SameEnergyFunctions(a, b) ==
    \A v \in Vectors :
        Len(v) = a.n_dof => /\ kinetic(a, v) = kinetic(b, v)
                            /\ potential(a, v) = potential(b, v)

(* C13: a system built by define_system from two coordinates and a
   hand-written subclass with the same kinetic and potential functions return
   the same times, q_trajectory and p_trajectory from evolve. *)
C13_DslEqualsHandWritten ==
    (/\ ev.pc = "returned"
     /\ ev.sys.cls = "CompiledSystem"
     /\ Len(ev.sys.coords) = 2
     /\ ev.sys.has_kinetic /\ ev.sys.has_potential
     /\ SameEnergyFunctions(ev.sys, HandWritten(ev.sys))) =>
        LET h == evolve(HandWritten(ev.sys), ev.initial, ev.t_max, ev.dt, ev.method)
        IN  /\ h.pc = "returned"
            /\ h.times = ev.times
            /\ h.q_traj = ev.q_traj
            /\ h.p_traj = ev.p_traj

\* q with coordinate i displaced by d, every other coordinate as in q
Displaced(q, i, d) == [q EXCEPT ![i] = FAdd(@, d)]

(* C14: force(q) returns for every coordinate i the central difference
   -(V(q + eps*e_i) - V(q - eps*e_i)) / (2*eps) with eps = 1e-7, each of the
   two evaluations displacing coordinate i alone. *)
C14_CentralDifference ==
    (last.op = "force" /\ last.exc = "none") =>
        \A sys \in systems :
            LET q == last.arg[1]
            IN  /\ Len(last.val) = Len(q)
                /\ \A i \in 1..Len(q) :
                       last.val[i] =
                         FNeg(BigToInt(BigRoundDiv(
                             BigSub(potential(sys, Displaced(q, i, epsilon)).val,
                                    potential(sys, Displaced(q, i, -epsilon)).val),
                             EnergyDen * 2 * epsilon)))

\* force was called at q = [1, 0] on a system of two coordinates with a
\* potential and returned [-1, 0]
C14_Witness ==
    /\ last.op = "force" /\ last.exc = "none"
    /\ last.arg = <<<<Scale, 0>>>>
    /\ last.val = <<-Scale, 0>>
    /\ \E sys \in systems : sys.n_dof = 2 /\ sys.has_potential

\* the operations of SymbolicHamiltonian other than set_hamiltonian
SymbolicOps ==
    {"hamilton_equations", "poisson_bracket", "find_conserved_quantities",
     "symplectic_matrix", "generate_equations_of_motion",
     "linearize_around_equilibrium"}

(* C15: while no Hamiltonian has been set, every operation other than
   set_hamiltonian fails and returns no result. *)
C15_UndefinedFails ==
    (last.op \in SymbolicOps /\ sh.H.none) => last.exc # "none"

\* the derivatives of the current H: dH/dp_i and -dH/dq_i for every i
Current_dH_dp(s) == [i \in 1..s.n_dof |-> diff(s.H.val, s.n_dof + i)]

Current_dH_dq(s) == [i \in 1..s.n_dof |-> PolyNeg(diff(s.H.val, i))]

(* C16: whenever a cached dq/dt or dp/dt is present it was derived from the
   current H, and hamilton_equations returns the derivatives of the current
   H, however H was assigned. *)
C16_CacheIsCurrent ==
    ~sh.H.none =>
        /\ ~sh.dH_dp.none => sh.dH_dp.val = Current_dH_dp(sh)
        /\ ~sh.dH_dq.none => sh.dH_dq.val = Current_dH_dq(sh)
        /\ (last.op = "hamilton_equations" /\ last.exc = "none") =>
               last.val = <<Current_dH_dp(sh), Current_dH_dq(sh)>>

\* p0**2/2 + q0**2/2 in an engine of one degree of freedom
UnitOscillator ==
    PolyAdd(Term(<<1, 2>>, <<0, 2>>), Term(<<1, 2>>, <<2, 0>>))

(* C17: once a Hamiltonian has been set through set_hamiltonian,
   hamilton_equations returns (dq_dt, dp_dt), each of length n_dof, with
   dq_dt[i] = dH/dp_i and dp_dt[i] = -dH/dq_i; for H = p**2/2 + q**2/2 it
   returns exactly ([p], [-q]). *)
C17_HamiltonEquations ==
    (last.op = "hamilton_equations" /\ ~sh.H.none) =>
        /\ last.exc = "none"
        /\ Len(last.val) = 2
        /\ Len(last.val[1]) = sh.n_dof /\ Len(last.val[2]) = sh.n_dof
        /\ \A i \in 1..sh.n_dof :
               /\ last.val[1][i] = diff(sh.H.val, sh.n_dof + i)
               /\ last.val[2][i] = PolyNeg(diff(sh.H.val, i))
        /\ (sh.n_dof = 1 /\ sh.H.val = UnitOscillator) =>
               last.val = << <<Term(<<1, 1>>, <<0, 1>>)>>, <<Term(<<-1, 1>>, <<1, 0>>)>> >>

\* hamilton_equations returned ([p0], [-q0]) for the unit oscillator
C17_Witness ==
    /\ last.op = "hamilton_equations" /\ last.exc = "none"
    /\ sh.n_dof = 1 /\ ~sh.H.none /\ sh.H.val = UnitOscillator
    /\ last.val = << <<Term(<<1, 1>>, <<0, 1>>)>>, <<Term(<<-1, 1>>, <<1, 0>>)>> >>

(* C18: on the engine's own variables poisson_bracket gives {q_i, p_i} = 1,
   {q_i, p_j} = 0 for i # j, {q_i, q_j} = 0 and {p_i, p_j} = 0. *)
C18_CanonicalBrackets ==
    last.op = "poisson_bracket" =>
        /\ last.exc = "none"
        /\ \A i, j \in 1..sh.n_dof :
               /\ last.arg = <<q_sym(sh, i), p_sym(sh, j)>> =>
                      last.val = IF i = j THEN Number(<<1, 1>>, 2 * sh.n_dof)
                                 ELSE PolyZero
               /\ last.arg = <<q_sym(sh, i), q_sym(sh, j)>> => last.val = PolyZero
               /\ last.arg = <<p_sym(sh, i), p_sym(sh, j)>> => last.val = PolyZero

\* {q1, p1} = 1 was computed in an engine of two degrees of freedom
C18_Witness ==
    /\ last.op = "poisson_bracket" /\ last.exc = "none"
    /\ sh.n_dof = 2
    /\ last.arg = <<q_sym(sh, 2), p_sym(sh, 2)>>
    /\ last.val = Number(<<1, 1>>, 4)

RECURSIVE SumOfForces(_, _)
\* {sum(p), H} in closed form: -(dH/dq_1 + ... + dH/dq_n), summed from i on
SumOfForces(s, i) ==
    IF i > s.n_dof THEN PolyZero
    ELSE PolyAdd(PolyNeg(diff(s.H.val, i)), SumOfForces(s, i + 1))

\* {L_z, H} in closed form: p1*dH/dp0 - p0*dH/dp1 + q1*dH/dq0 - q0*dH/dq1
TorqueOf(s) ==
    PolyAdd(PolySub(PolyMul(p_sym(s, 2), diff(s.H.val, s.n_dof + 1)),
                    PolyMul(p_sym(s, 1), diff(s.H.val, s.n_dof + 2))),
            PolySub(PolyMul(q_sym(s, 2), diff(s.H.val, 1)),
                    PolyMul(q_sym(s, 1), diff(s.H.val, 2))))

(* C19: in the Defined state find_conserved_quantities returns a mapping
   that holds "energy" bound to the current H, "momentum" bound to sum(p)
   exactly when {sum(p), H} is identically zero, "angular_momentum" bound to
   q0*p1 - q1*p0 exactly when n_dof >= 2 and its bracket with H is
   identically zero, and no other key. *)
C19_ConservedQuantities ==
    (last.op = "find_conserved_quantities" /\ ~sh.H.none) =>
        /\ last.exc = "none"
        /\ DOMAIN last.val \subseteq {"energy", "momentum", "angular_momentum"}
        /\ "energy" \in DOMAIN last.val
        /\ last.val["energy"] = sh.H
        /\ "momentum" \in DOMAIN last.val <=> SumOfForces(sh, 1) = PolyZero
        /\ "momentum" \in DOMAIN last.val => last.val["momentum"] = Some(sum_p(sh, 1))
        /\ "angular_momentum" \in DOMAIN last.val
              <=> (sh.n_dof >= 2 /\ TorqueOf(sh) = PolyZero)
        /\ "angular_momentum" \in DOMAIN last.val =>
               last.val["angular_momentum"]
                 = Some(PolySub(PolyMul(q_sym(sh, 1), p_sym(sh, 2)),
                                PolyMul(q_sym(sh, 2), p_sym(sh, 1))))

\* a call that reported energy and momentum and nothing else
C19_Witness ==
    /\ last.op = "find_conserved_quantities" /\ last.exc = "none"
    /\ ~sh.H.none
    /\ DOMAIN last.val = {"energy", "momentum"}

\* H = sum(p_i**2/(2m) + k*q_i**2/2) with n_dof >= 2 and k > 0
IsUncoupled(s) ==
    /\ s.n_dof >= 2 /\ ~s.H.none
    /\ \E k \in 1..MaxK, m \in 1..MaxMass :
          s.H = harmonic_oscillator_hamiltonian(s.n_dof, k, m).H

\* H = sum(p_i**2/(2m)) + sum(k_c*(q_i - q_(i+1))**2/2) with n_dof >= 2 and k_c > 0
IsChain(s) ==
    /\ s.n_dof >= 2 /\ ~s.H.none
    /\ \E k_c \in 1..MaxK, m \in 1..MaxMass :
          s.H = coupled_oscillators_hamiltonian(s.n_dof, 0, k_c, m).H

(* C20 as stated: for an uncoupled multi-oscillator Hamiltonian
   find_conserved_quantities reports only "energy"; for a chain whose
   potential holds only pairwise (q_i - q_j)**2 terms it reports "momentum"
   in addition to "energy". *)
C20_OnlyEnergy ==
    (last.op = "find_conserved_quantities" /\ last.exc = "none") =>
        /\ IsUncoupled(sh) => DOMAIN last.val = {"energy"}
        /\ IsChain(sh) => {"energy", "momentum"} \subseteq DOMAIN last.val

(* C20: for an uncoupled multi-oscillator Hamiltonian with one spring
   constant find_conserved_quantities reports "energy" and
   "angular_momentum" and not "momentum"; for a chain whose potential holds
   only pairwise (q_i - q_j)**2 terms it reports "momentum" in addition to
   "energy". *)
C20_ConservedOfTemplates ==
    (last.op = "find_conserved_quantities" /\ last.exc = "none") =>
        /\ IsUncoupled(sh) => DOMAIN last.val = {"energy", "angular_momentum"}
        /\ IsChain(sh) => {"energy", "momentum"} \subseteq DOMAIN last.val

\* the uncoupled oscillators were asked and reported energy and angular momentum
C20_Witness ==
    /\ last.op = "find_conserved_quantities" /\ last.exc = "none"
    /\ IsUncoupled(sh)
    /\ DOMAIN last.val = {"energy", "angular_momentum"}

\* the product of two square matrices of integers, entry (i, j)
RECURSIVE DotFrom(_, _, _, _, _)
DotFrom(A, B, i, j, k) ==
    IF k > Len(A) THEN 0 ELSE A[i][k] * B[k][j] + DotFrom(A, B, i, j, k + 1)

(* C21: for every n_dof = n >= 1 symplectic_matrix returns the 2n x 2n
   matrix J with J[i][n+i] = 1 and J[n+i][i] = -1 for i < n and every other
   entry 0; J is antisymmetric and J*J = -I. *)
C21_SymplecticMatrix ==
    last.op = "symplectic_matrix" =>
        LET n == sh.n_dof
            J == last.val
        IN  /\ last.exc = "none"
            /\ Len(J) = 2 * n
            /\ \A i \in 1..(2 * n) : Len(J[i]) = 2 * n
            /\ \A i, j \in 1..(2 * n) :
                   J[i][j] = IF i <= n /\ j = n + i THEN 1
                             ELSE IF i > n /\ j = i - n THEN -1
                             ELSE 0
            /\ \A i, j \in 1..(2 * n) : J[i][j] = -J[j][i]
            /\ \A i, j \in 1..(2 * n) :
                   DotFrom(J, J, i, j, 1) = IF i = j THEN -1 ELSE 0

\* the 4 x 4 matrix of an engine of two degrees of freedom was returned
C21_Witness ==
    /\ last.op = "symplectic_matrix" /\ last.exc = "none"
    /\ sh.n_dof = 2
    /\ last.val = << <<0, 0, 1, 0>>, <<0, 0, 0, 1>>, <<-1, 0, 0, 0>>, <<0, -1, 0, 0>> >>

\* the state vector handed to the callable: the only argument, or the one
\* after t
StateArgument == last.arg[Len(last.arg)]

(* C22: in the Defined state the callable returned by
   generate_equations_of_motion, applied to a state vector
   [q_0..q_(n-1), p_0..p_(n-1)] of length 2n, returns a vector of length 2n:
   the dq/dt values and then the dp/dt values of hamilton_equations at that
   state. *)
C22_EquationsOfMotion ==
    (/\ last.op = "equations_of_motion"
     /\ StateArgument \in StateVectors(sh.n_dof)) =>
        /\ last.exc = "none"
        /\ Len(last.val) = 2 * sh.n_dof
        /\ \A i \in 1..sh.n_dof :
               /\ last.val[i] = ValueAt(sh.dH_dp.val[i], StateArgument.items)
               /\ last.val[sh.n_dof + i] = ValueAt(sh.dH_dq.val[i], StateArgument.items)

\* component i of (dq/dt, dp/dt), taken from the current H
Flow(s, i) ==
    IF i <= s.n_dof THEN diff(s.H.val, s.n_dof + i)
    ELSE PolyNeg(diff(s.H.val, i - s.n_dof))

\* the value of variable v at the equilibrium (q_eq, p_eq)
EquilibriumAt(s, q_eq, p_eq) ==
    [v \in 1..(2 * s.n_dof) |->
        IF v <= s.n_dof THEN <<q_eq[v], 1>> ELSE <<p_eq[v - s.n_dof], 1>>]

\* p0**2/2 + q0**2/2 + q0**4/4 in an engine of one degree of freedom
UnitDuffing == PolyAdd(UnitOscillator, Term(<<1, 4>>, <<4, 0>>))

(* C23: in the Defined state linearize_around_equilibrium(q_eq, p_eq), given
   a value for every q_k and p_k, returns the 2n x 2n matrix whose entry
   (i, j) is the partial derivative of component i of (dq/dt, dp/dt) with
   respect to component j of (q, p), taken at the equilibrium: every entry
   is a number, no variable of the state remains.  For
   H = p**2/2 + q**2/2 + q**4/4 at q = 1, p = 0 it is [[0, 1], [-4, 0]]. *)
C23_Linearize ==
    (/\ last.op = "linearize_around_equilibrium" /\ ~sh.H.none
     /\ Len(last.arg[1]) = sh.n_dof /\ Len(last.arg[2]) = sh.n_dof) =>
        LET n    == sh.n_dof
            zero == [v \in 1..(2 * n) |-> 0]
        IN  /\ last.exc = "none"
            /\ Len(last.val) = 2 * n
            /\ \A i \in 1..(2 * n) :
                   /\ Len(last.val[i]) = 2 * n
                   /\ \A j \in 1..(2 * n) :
                          /\ DOMAIN last.val[i][j] \subseteq {zero}
                          /\ Coef(last.val[i][j], zero)
                               = Coef(subs(diff(Flow(sh, i), j),
                                           EquilibriumAt(sh, last.arg[1], last.arg[2])),
                                      zero)
            /\ (n = 1 /\ sh.H.val = UnitDuffing /\ last.arg = << <<1>>, <<0>> >>) =>
                   last.val = << <<PolyZero, Number(<<1, 1>>, 2)>>,
                                 <<Number(<<-4, 1>>, 2), PolyZero>> >>

\* the anharmonic oscillator was linearized at q = 1, p = 0
C23_Witness ==
    /\ last.op = "linearize_around_equilibrium" /\ last.exc = "none"
    /\ sh.n_dof = 1 /\ ~sh.H.none /\ sh.H.val = UnitDuffing
    /\ last.arg = << <<1>>, <<0>> >>
    /\ last.val = << <<PolyZero, Number(<<1, 1>>, 2)>>,
                     <<Number(<<-4, 1>>, 2), PolyZero>> >>

(* C24: evolve modifies neither the system (n_dof and mass are after the
   call what they were before) nor the initial state object of the caller
   (its q and p are what row 0 recorded on entry), and every evolve call on
   an instance, whatever was called on it before, returns what a fresh
   instance returns for the same arguments. *)
C24_EvolveLeavesArguments ==
    ev.pc # "idle" =>
        /\ ev.sys \in systems
        /\ ev.written >= 1 =>
              /\ ev.initial.q = ev.q_traj[1]
              /\ ev.initial.p = ev.p_traj[1]
        /\ ev.pc \in {"returned", "raised"} =>
              LET fresh == evolve(HamiltonianSystem_init(ev.sys.cls, ev.sys.n_dof,
                                                         Mass(ev.sys.mass)),
                                  ev.initial, ev.t_max, ev.dt, ev.method)
              IN  /\ ev.sys.cls # "CompiledSystem" =>
                        /\ fresh.pc = ev.pc /\ fresh.exc = ev.exc
                        /\ fresh.times = ev.times
                        /\ fresh.q_traj = ev.q_traj
                        /\ fresh.p_traj = ev.p_traj
                  /\ ev.sys.cls = "CompiledSystem" =>
                        \E defn \in Definitions :
                           LET compiled == evolve(define_system(defn), ev.initial,
                                                  ev.t_max, ev.dt, ev.method)
                           IN  /\ define_system(defn) = ev.sys
                               /\ compiled.pc = ev.pc /\ compiled.exc = ev.exc
                               /\ compiled.times = ev.times
                               /\ compiled.q_traj = ev.q_traj
                               /\ compiled.p_traj = ev.p_traj

\* an evolve of three rows returned on a system with a potential, from an
\* initial state that the steps moved away from
C24_Witness ==
    /\ ev.pc = "returned"
    /\ ev.n_steps = 3 /\ ev.sys.has_potential
    /\ ev.state # ev.initial
    /\ ev.initial.q = ev.q_traj[1] /\ ev.initial.p = ev.p_traj[1]

(* C25: the value an operation of SymbolicHamiltonian returns depends only
   on its arguments and the current H, whatever ran before and whatever the
   caller did with a result returned earlier: hamilton_equations returns the
   derivatives of the current H, generate_equations_of_motion compiles them,
   linearize_around_equilibrium differentiates them. *)
C25_ResultsFromCurrentH ==
    (~sh.H.none /\ last.exc = "none") =>
        /\ last.op = "hamilton_equations" =>
               last.val = <<Current_dH_dp(sh), Current_dH_dq(sh)>>
        /\ last.op = "generate_equations_of_motion" =>
               last.val.dstate_dt = Current_dH_dp(sh) \o Current_dH_dq(sh)
        /\ last.op = "linearize_around_equilibrium" =>
               \A i, j \in 1..(2 * sh.n_dof) :
                  last.val[i][j]
                    = subs(diff(Flow(sh, i), j),
                           EquilibriumAt(sh, last.arg[1], last.arg[2]))

\* the coupling force on subsystem i from subsystem j in closed form: the
\* coupling is c * q_i[0] * q_j[0], so the force is -c * q_j[0] on the first
\* coordinate
ClosedCouplingForce(cs, i, j, states) ==
    IF cs.coupling_functions[i][j]
    THEN -(cs.coupling_strengths[i][j] * states[j].q[1])
    ELSE 0

(* C26: in evolution_step the new state of every subsystem i, whatever its
   type, is its internal evolution over dt plus a momentum kick dt*F_ij for
   every j # i with coupling_strengths[i, j] # 0: a subsystem with a
   _verlet_step gets that step and the kicks, and a subsystem of any other
   type is moved by its own dynamics as well, so its position changes when
   its momentum is not zero. *)
C26_InternalAndCoupling ==
    (last.op = "evolution_step" /\ last.exc = "none") =>
        LET cs     == last.arg[1]
            states == last.arg[2]
            dt     == last.arg[3]
        IN  /\ Len(last.val) = Len(cs.subsystems)
            /\ \A i \in 1..Len(cs.subsystems) :
                   LET j == 3 - i
                       F == IF cs.coupling_strengths[i][j] # 0
                            THEN ClosedCouplingForce(cs, i, j, states) ELSE 0
                   IN  /\ hasattr_verlet_step(cs.subsystems[i]) =>
                              LET step == verlet_step(cs.subsystems[i], states[i], dt).state
                              IN  /\ last.val[i].q = step.q
                                  /\ last.val[i].p[1]
                                       = FAdd(step.p[1], FMulDiv(dt, F, TicksPerUnit))
                       /\ states[i].p[1] # 0 => last.val[i].q # states[i].q

(* C27: in every trajectory evolve returns, row 0 of q_trajectory and
   p_trajectory is the initial state and every later row i is one
   integration step applied to row i-1; the three arrays have the same
   number of rows and the trajectories have n_dof columns. *)
C27_RowsAreSteps ==
    ev.pc = "returned" =>
        /\ Len(ev.times) = Len(ev.q_traj)
        /\ Len(ev.p_traj) = Len(ev.q_traj)
        /\ \A r \in 1..Len(ev.q_traj) :
               /\ Len(ev.q_traj[r]) = ev.sys.n_dof
               /\ Len(ev.p_traj[r]) = ev.sys.n_dof
        /\ Len(ev.q_traj) >= 1 =>
               /\ ev.q_traj[1] = ev.initial.q
               /\ ev.p_traj[1] = ev.initial.p
        /\ \A r \in 2..Len(ev.q_traj) :
               LET step == verlet_step(ev.sys, [q |-> ev.q_traj[r - 1], p |-> ev.p_traj[r - 1]],
                                       ev.dt)
               IN  /\ step.exc = "none"
                   /\ ev.q_traj[r] = step.state.q
                   /\ ev.p_traj[r] = step.state.p

\* a trajectory of three rows was returned whose rows differ from one
\* another
C27_Witness ==
    /\ ev.pc = "returned"
    /\ Len(ev.q_traj) = 3
    /\ ev.q_traj[2] # ev.q_traj[1]
    /\ ev.q_traj[3] # ev.q_traj[2]
    /\ ev.q_traj[1] = ev.initial.q

(* C28: evolve called with a method other than 'verlet' never returns a
   trajectory: it raises ValueError, for every initial state, t_max and
   dt. *)
C28_UnknownMethodRaises ==
    (ev.pc \in {"returned", "raised"} /\ ev.method # "verlet") =>
        (ev.pc = "raised" /\ ev.exc = "ValueError")

(* C29: the trajectory evolve returns depends only on the initial state, dt,
   t_max, the mass and the force of the system, never on its kinetic
   function: a system that differs from this one in its kinetic method alone
   (another define_system definition with the same coordinates and
   potential, both with unit mass) returns the identical trajectory. *)
C29_KineticIgnored ==
    (ev.pc = "returned" /\ ev.sys.cls = "CompiledSystem") =>
        \A has_kinetic \in BOOLEAN, m \in 1..MaxMass :
            LET other == evolve([ev.sys EXCEPT !.has_kinetic = has_kinetic,
                                               !.kinetic_m = m],
                                ev.initial, ev.t_max, ev.dt, ev.method)
            IN  /\ other.sys.mass = ev.sys.mass
                /\ other.pc = "returned"
                /\ other.times = ev.times
                /\ other.q_traj = ev.q_traj
                /\ other.p_traj = ev.p_traj

\* a system whose kinetic method divides by 2*2 returned a trajectory in
\* which q moved
C29_Witness ==
    /\ ev.pc = "returned" /\ ev.sys.cls = "CompiledSystem"
    /\ ev.sys.has_kinetic /\ ev.sys.kinetic_m = 2
    /\ Len(ev.q_traj) >= 2
    /\ ev.q_traj[2] # ev.q_traj[1]

(* C30: force(q), which perturbs the caller's q in place, leaves q holding
   its entry values on every exit, also when potential raises during one of
   the evaluations. *)
C30_ForceRestoresQ ==
    last.op = "force" => last.after = last.arg

=============================================================================
